---- MODULE Spec2Model ----
(***************************************************************************)
(* Model of the vuDataSim web UI core: the checksum-guarded YAML file      *)
(* store (yaml_editor.py) and the cluster synchronisation and bulk-edit    *)
(* manager (cluster_manager.py).                                           *)
(*                                                                         *)
(* Spec         the file store, driven by concurrent local editors whose   *)
(*              calls interleave step by step (each step is one file       *)
(*              system call of the handler).                               *)
(* SpecSync     the cluster manager's snapshot side: fetch_node_config,    *)
(*              fetch_all_configs and push_all_local_configs_to_node, one  *)
(*              handler call per step, against remote trees that lose      *)
(*              files between calls.                                       *)
(* SpecBulk     the cluster manager's bulk unique-key edits on one node    *)
(*              and on many nodes, one handler call per step.              *)
(* SpecNodes    every node handler of the cluster manager together.        *)
(* SpecViews    the handlers together with the discovery and EPS queries   *)
(*              and the module-level bulk edit.                            *)
(* SpecEPS      the EPS engine and the roll-up, one call on a tree.        *)
(* SpecCompare  the engine and the roll-up asked the same question.        *)
(* SpecRegistry add_node and remove_node with failing saves and deletes.   *)
(* SpecDuration _parse_duration and _format_duration on bounded inputs.    *)
(* SpecProcess  the process manager (binary_manager.py) with a clock.      *)
(* SpecWrites   the NumUniqKey values the edit paths write.                *)
(***************************************************************************)
EXTENDS Integers, Sequences, FiniteSets, TLC

\* ------------------------------------------------------------------------
\* Bounds
\* ------------------------------------------------------------------------
MaxTime == 1

\* duration strings of every length up to MaxLen are parsed
MaxLen == 3

\* every whole number of seconds up to MaxSeconds is formatted
MaxSeconds == 7300

\* the process manager's clock stops at MaxClock seconds
MaxClock == 3

\* start_binary is called at most MaxRuns times
MaxRuns == 2

MaxFaults == 1
MaxGone == 1

\* ------------------------------------------------------------------------
\* Program constants
\* ------------------------------------------------------------------------
MAX_UNIQUE_KEY == 1000000000

\* ------------------------------------------------------------------------
\* File store: documents
\* ------------------------------------------------------------------------
Editors == {1, 2}

Docs == {"main", "module", "submodule"}

\* file_path.name of CONF_D_DIR/conf.yml, CONF_D_DIR/<module>/conf.yml and
\* CONF_D_DIR/<module>/<submodule>.yml
FileName(d) == IF d = "submodule" THEN "sub.yml" ELSE "conf.yml"

\* A parsed document.  uk: state of the uniquekey section ("none" absent,
\* "empty" present without NumUniqKey, "num" NumUniqKey = num); period: the
\* period key as a sequence of characters (<<>> absent); inc: the entry of
\* the module in include_module_dirs ("none" no such section, "nomod" the
\* module is not listed, "on"/"off" its enabled flag); rev: the rest of the
\* document body.  null marks the empty file, which YAML loads as None.
Document(uk, num, period, inc, rev) ==
    [null |-> FALSE, uk |-> uk, num |-> num, period |-> period, inc |-> inc, rev |-> rev]

NullDoc == [null |-> TRUE, uk |-> "none", num |-> 0, period |-> <<>>, inc |-> "none", rev |-> 0]

InitialDoc(d) ==
    IF d = "main" THEN Document("none", 0, <<>>, "on", 0)
    ELSE IF d = "module" THEN Document("num", 5, <<"1", "s">>, "none", 0)
    ELSE Document("none", 0, <<>>, "none", 0)

\* hashlib.md5(f.read()).hexdigest(): a change detector, equal exactly on
\* equal content
calculate_checksum(content) == <<"md5", content>>

NoPath == <<"", -1>>

\* BACKUPS_DIR / f"{file_path.name}.bak.{timestamp}", timestamp to the second
BackupPath(d, t) == <<FileName(d), t>>

\* ------------------------------------------------------------------------
\* Duration strings (sequences of one-character strings)
\* ------------------------------------------------------------------------
Digits == {"0", "1", "2", "3", "4", "5", "6", "7", "8", "9"}

Units == {<<"m", "s">>, <<"s">>, <<"m">>, <<"h">>}

\* str.strip() for the blank character
RECURSIVE LStrip(_)
LStrip(s) == IF s # <<>> /\ Head(s) = " " THEN LStrip(Tail(s)) ELSE s

RECURSIVE RStrip(_)
RStrip(s) == IF s # <<>> /\ s[Len(s)] = " " THEN RStrip(SubSeq(s, 1, Len(s) - 1)) ELSE s

Strip(s) == RStrip(LStrip(s))

\* re.match(r'^(\d+)(ms|s|m|h)$', s)
MatchesDuration(s) ==
    \E k \in 1..Len(s) :
        /\ \A i \in 1..k : s[i] \in Digits
        /\ SubSeq(s, k + 1, Len(s)) \in Units

\* _parse_duration raises ValueError unless the input is empty (1.0 is
\* returned before anything is looked at) or its stripped form matches
parse_duration_ok(s) == s = <<>> \/ MatchesDuration(Strip(s))

\* ------------------------------------------------------------------------
\* File store: arguments of the mutators
\* ------------------------------------------------------------------------
\* An argument of a mutator: num_uniquekey (an int, or a value of another
\* type such as the float 2.0), period or enabled
IntArg(n) == [kind |-> "int", n |-> n, per |-> <<>>, flag |-> FALSE]

UniqueKeyArgs ==
    {IntArg(0), IntArg(1), IntArg(MAX_UNIQUE_KEY), IntArg(MAX_UNIQUE_KEY + 1),
     [kind |-> "float", n |-> 2, per |-> <<>>, flag |-> FALSE]}

PeriodArgs == {<<"2", "5", "0", "m", "s">>, <<"1", ".", "5", "s">>, <<>>}

\* the range check without its upper bound
UniqueKeyRejected_NoUpperBound(a) == a.kind # "int" \/ a.n < 1

\* not isinstance(num_uniquekey, int) or num_uniquekey < 1 or
\* num_uniquekey > MAX_UNIQUE_KEY
UniqueKeyRejected(a) == a.kind # "int" \/ a.n < 1 \/ a.n > MAX_UNIQUE_KEY

WriteOps == {"write_main_config", "write_module_config", "write_submodule_config"}

Mutators == {"toggle_module_enabled", "update_module_uniquekey",
             "update_module_period", "update_submodule_uniquekey"}

OpDoc(op) ==
    IF op \in {"write_main_config", "toggle_module_enabled"} THEN "main"
    ELSE IF op \in {"write_submodule_config", "update_submodule_uniquekey"} THEN "submodule"
    ELSE "module"

\* data["uniquekey"]["NumUniqKey"] = n, creating the section when absent
SetUniqueKey(data, n) == [data EXCEPT !.uk = "num", !.num = n]

\* data["period"] = period
SetPeriod(data, p) == [data EXCEPT !.period = p]

\* data["include_module_dirs"][module_name]["enabled"] = enabled
SetEnabled(data, b) == [data EXCEPT !.inc = IF b THEN "on" ELSE "off"]

\* ------------------------------------------------------------------------
\* State
\* ------------------------------------------------------------------------
VARIABLES
    files,      \* file store: content of each document on disk
    tmp,        \* file store: the .tmp sibling of each document
    backups,    \* file store: BACKUPS_DIR, backup path -> content
    now,        \* wall clock, in seconds, as last read
    faults,     \* I/O failures injected so far
    ed,         \* per editor: position in its call and its locals
    last,       \* the call that returned or raised most recently
    registry,   \* cluster: nodes_config['nodes'], node -> enabled
    remote,     \* cluster: each node's configuration tree, file -> content
    snapshot,   \* cluster: each node's local snapshot directory
    ret,        \* cluster: the handler call that has just returned
    ncalls,     \* cluster: handler calls made so far
    tfaults,    \* cluster: transport failures injected so far
    conf_d,     \* EPS: the configuration tree a calculation reads
    out,        \* EPS: the calculation that has just returned
    nodes_config,  \* registry: self.nodes_config['nodes'], name -> definition
    nodes_file,    \* registry: the nodes file on disk
    node_dirs,     \* registry: per name, its snapshot and backup directories
    reg_last,      \* registry: the add_node / remove_node call that has just returned
    build,         \* process manager: which binary_manager.py is running
    processes,     \* process manager: self.processes[binary_name]
    alive,         \* process manager: the started process has not exited
    clock,         \* process manager: seconds since the manager came up
    pm_last        \* process manager: the call that has just returned

fsvars == <<files, tmp, backups, now, faults, ed, last>>

clvars == <<registry, remote, snapshot, ret, ncalls, tfaults>>

epvars == <<conf_d, out>>

rgvars == <<nodes_config, nodes_file, node_dirs, reg_last>>

pmvars == <<build, processes, alive, clock, pm_last>>

vars ==
    <<files, tmp, backups, now, faults, ed, last, registry, remote, snapshot, ret, ncalls,
      tfaults, conf_d, out, nodes_config, nodes_file, node_dirs, reg_last, build, processes,
      alive, clock, pm_last>>

NoTmp == [present |-> FALSE, content |-> NullDoc]

TmpFile(c) == [present |-> TRUE, content |-> c]

NoArg == [kind |-> "none", n |-> 0, per |-> <<>>, flag |-> FALSE]

\* An editor's locals.  spent: the editor has made its call (every editor
\* reads a document and then makes one call on it).  held/hdoc/hdata/hsum: what its last read_*_config
\* returned.  op/arg/orig/data: the call in progress.  The remaining fields
\* record what the call in progress has done so far: bpath the backup it
\* made and bsrc what it copied there, tmpd whether it wrote the temporary
\* file, wrote whether its rename replaced the target and replaced what was
\* there, stale whether orig differed from the checksum on disk when the
\* call began, mismatch whether one of its checksum checks saw a checksum
\* other than orig, failed_io whether one of its file system calls failed,
\* steps the file system steps of write_*_config it has taken.
IdleEditor ==
    [pc |-> "idle", op |-> "none", spent |-> FALSE,
     held |-> FALSE, hdoc |-> "main", hdata |-> NullDoc, hsum |-> calculate_checksum(NullDoc),
     arg |-> NoArg, data |-> NullDoc, orig |-> calculate_checksum(NullDoc),
     bpath |-> NoPath, bsrc |-> NullDoc, tmpd |-> FALSE,
     wrote |-> FALSE, replaced |-> NullDoc, stale |-> FALSE, mismatch |-> FALSE,
     failed_io |-> FALSE, steps |-> <<>>,
     status |-> "none", new_checksum |-> calculate_checksum(NullDoc)]

\* What a finished call leaves behind: the editor's locals at the return or
\* raise, who it was, whether the temporary file existed at that moment and
\* what the file at the call's backup path held at that moment
Finished(e, r, tmpAfter, backupAfter) ==
    [who |-> e, call |-> r, tmp_after |-> tmpAfter, backup_after |-> backupAfter]

\* the editor after its call: the outcome stays with it
Spent(r) == [IdleEditor EXCEPT !.spent = TRUE, !.op = r.op, !.orig = r.orig, !.status = r.status]

InitFS ==
    /\ files = [d \in Docs |-> InitialDoc(d)]
    /\ tmp = [d \in Docs |-> NoTmp]
    /\ backups = [p \in {} |-> NullDoc]
    /\ now = 0
    /\ faults = 0
    /\ ed = [e \in Editors |-> IdleEditor]
    /\ last = Finished(0, IdleEditor, FALSE, NullDoc)

\* An editor's step ends in r: the call goes on, or it is over (r.pc =
\* "idle"), its outcome becomes `last` and the locals are dropped
Proceed(e, r, tmpNext) ==
    IF r.pc = "idle"
    THEN /\ last' = Finished(e, r, tmpNext[OpDoc(r.op)].present,
                               IF r.bpath \in DOMAIN backups THEN backups[r.bpath] ELSE NullDoc)
         /\ ed' = [ed EXCEPT ![e] = Spent(r)]
    ELSE /\ ed' = [ed EXCEPT ![e] = r]
         /\ UNCHANGED last

\* ------------------------------------------------------------------------
\* read_main_config / read_module_config / read_submodule_config, as the
\* caller uses them to obtain the data and the checksum it later presents
\* ------------------------------------------------------------------------
\* with open(path) as f: content = f.read(); data = self.yaml.load(content)
ReadContent(e, d) ==
    /\ ed[e].pc = "idle"
    /\ ~ed[e].held
    /\ ~ed[e].spent
    /\ ed' = [ed EXCEPT ![e].pc = "read_checksum", ![e].hdoc = d, ![e].hdata = files[d]]
    /\ UNCHANGED <<files, tmp, backups, now, faults, last, clvars, epvars, rgvars, pmvars>>

\* checksum = self._calculate_checksum(path); return data, checksum
ReadChecksum(e) ==
    /\ ed[e].pc = "read_checksum"
    /\ ed' = [ed EXCEPT ![e].pc = "idle", ![e].held = TRUE,
                        ![e].hsum = calculate_checksum(files[ed[e].hdoc])]
    /\ UNCHANGED <<files, tmp, backups, now, faults, last, clvars, epvars, rgvars, pmvars>>

\* ------------------------------------------------------------------------
\* A call begins: the arguments are bound and, in the mutators, validated
\* before the file is looked at
\* ------------------------------------------------------------------------
BeginCall(r, op, a) ==
    [IdleEditor EXCEPT !.op = op, !.orig = r.hsum, !.arg = a, !.status = "running",
                       !.stale = (r.hsum # calculate_checksum(files[OpDoc(op)]))]

Raise(r, err) == [r EXCEPT !.pc = "idle", !.status = err]

CanCall(e, op) ==
    /\ ed[e].pc = "idle"
    /\ ed[e].held
    /\ ed[e].hdoc = OpDoc(op)

\* write_main_config / write_module_config / write_submodule_config(data,
\* original_checksum): the caller passes the data it read, edited
CallWrite(e, op) ==
    /\ op \in WriteOps
    /\ CanCall(e, op)
    /\ ed' = [ed EXCEPT ![e] = [BeginCall(ed[e], op, NoArg) EXCEPT
                  !.pc = "w_check",
                  !.data = [ed[e].hdata EXCEPT !.null = FALSE, !.rev = e]]]
    /\ UNCHANGED <<files, tmp, backups, now, faults, last, clvars, epvars, rgvars, pmvars>>

\* update_module_uniquekey / update_submodule_uniquekey(num_uniquekey,
\* original_checksum): the range check comes first
UpdateUniquekeyValidate(r) ==
    IF UniqueKeyRejected(r.arg) THEN Raise(r, "OutOfRange")
    ELSE [r EXCEPT !.pc = "m_read"]

CallUpdateUniquekey(e, op, a) ==
    /\ op \in {"update_module_uniquekey", "update_submodule_uniquekey"}
    /\ CanCall(e, op)
    /\ Proceed(e, UpdateUniquekeyValidate(BeginCall(ed[e], op, a)), tmp)
    /\ UNCHANGED <<files, tmp, backups, now, faults, clvars, epvars, rgvars, pmvars>>

\* update_module_period(period, original_checksum): _parse_duration first
UpdatePeriodValidate(r) ==
    IF ~parse_duration_ok(r.arg.per) THEN Raise(r, "InvalidFormat")
    ELSE [r EXCEPT !.pc = "m_read"]

CallUpdatePeriod(e, p) ==
    /\ CanCall(e, "update_module_period")
    /\ Proceed(e, UpdatePeriodValidate(
                      BeginCall(ed[e], "update_module_period", [NoArg EXCEPT !.kind = "str", !.per = p])),
               tmp)
    /\ UNCHANGED <<files, tmp, backups, now, faults, clvars, epvars, rgvars, pmvars>>

\* toggle_module_enabled(module_name, enabled, original_checksum)
CallToggle(e, b) ==
    /\ CanCall(e, "toggle_module_enabled")
    /\ ed' = [ed EXCEPT ![e] =
                  [BeginCall(ed[e], "toggle_module_enabled", [NoArg EXCEPT !.kind = "bool", !.flag = b])
                      EXCEPT !.pc = "m_read"]]
    /\ UNCHANGED <<files, tmp, backups, now, faults, last, clvars, epvars, rgvars, pmvars>>

\* ------------------------------------------------------------------------
\* The mutators' fresh read: data, current_checksum = self.read_*_config()
\* ------------------------------------------------------------------------
MutatorRead(e) ==
    /\ ed[e].pc = "m_read"
    /\ ed' = [ed EXCEPT ![e].pc = "m_check", ![e].data = files[OpDoc(ed[e].op)]]
    /\ UNCHANGED <<files, tmp, backups, now, faults, last, clvars, epvars, rgvars, pmvars>>

\* the edit each mutator applies to the data it read
MutatorApply(r) ==
    IF r.data.null THEN Raise(r, "TypeError")
    ELSE IF r.op = "toggle_module_enabled" THEN
        IF r.data.inc \in {"none", "nomod"} THEN Raise(r, "ModuleNotListed")
        ELSE [r EXCEPT !.pc = "w_check", !.data = SetEnabled(r.data, r.arg.flag)]
    ELSE IF r.op = "update_module_period" THEN
        [r EXCEPT !.pc = "w_check", !.data = SetPeriod(r.data, r.arg.per)]
    ELSE [r EXCEPT !.pc = "w_check", !.data = SetUniqueKey(r.data, r.arg.n)]

\* the checksum half of the read, then
\* if current_checksum != original_checksum: raise ValueError(...)
MutatorCheck(r, current) ==
    IF current # r.orig THEN Raise(r, "ConcurrentModification")
    ELSE MutatorApply(r)

Observe(r, current) == [r EXCEPT !.mismatch = @ \/ current # r.orig]

Took(r, step) == [r EXCEPT !.steps = Append(@, step)]

MutatorCheckStep(e) ==
    /\ ed[e].pc = "m_check"
    /\ LET current == calculate_checksum(files[OpDoc(ed[e].op)])
       IN Proceed(e, MutatorCheck(Observe(ed[e], current), current), tmp)
    /\ UNCHANGED <<files, tmp, backups, now, faults, clvars, epvars, rgvars, pmvars>>

\* ------------------------------------------------------------------------
\* write_*_config, one file system call per step
\* ------------------------------------------------------------------------
\* the write without its conflict check
WriteCheck_NoCheck(r, current) == [r EXCEPT !.pc = "w_backup"]

\* current_checksum = self._calculate_checksum(path)
\* if current_checksum != original_checksum: raise ValueError(...)
WriteCheck(r, current) ==
    IF current # r.orig THEN Raise(r, "ConcurrentModification")
    ELSE [r EXCEPT !.pc = "w_backup"]

WriteCheckStep(e) ==
    /\ ed[e].pc = "w_check"
    /\ LET current == calculate_checksum(files[OpDoc(ed[e].op)])
       IN Proceed(e, WriteCheck(Took(Observe(ed[e], current), "check"), current), tmp)
    /\ UNCHANGED <<files, tmp, backups, now, faults, clvars, epvars, rgvars, pmvars>>

\* shutil.copy2(file_path, backup_path): an existing file at backup_path is
\* overwritten
create_backup(bk, path, content) ==
    [p \in (DOMAIN bk) \cup {path} |-> IF p = path THEN content ELSE bk[p]]

\* backup_path = self._create_backup(path), datetime.now() reading t
WriteBackup(e, t) ==
    /\ ed[e].pc = "w_backup"
    /\ t >= now
    /\ now' = t
    /\ LET d == OpDoc(ed[e].op)
       IN /\ backups' = create_backup(backups, BackupPath(d, t), files[d])
          /\ ed' = [ed EXCEPT ![e] = [Took(ed[e], "backup") EXCEPT
                          !.pc = "w_tmp", !.bpath = BackupPath(d, t), !.bsrc = files[d]]]
    /\ UNCHANGED <<files, tmp, faults, last, clvars, epvars, rgvars, pmvars>>

\* with open(temp_path, 'w') as f: self.yaml.dump(data, f)
WriteTemp(e) ==
    /\ ed[e].pc = "w_tmp"
    /\ tmp' = [tmp EXCEPT ![OpDoc(ed[e].op)] = TmpFile(ed[e].data)]
    /\ ed' = [ed EXCEPT ![e] = [Took(ed[e], "temp") EXCEPT !.pc = "w_rename", !.tmpd = TRUE]]
    /\ UNCHANGED <<files, backups, now, faults, last, clvars, epvars, rgvars, pmvars>>

\* the same, failing: open() fails and nothing is written, or dump() fails
\* after open() truncated the file
WriteTempFails(e, truncated) ==
    /\ ed[e].pc = "w_tmp"
    /\ faults < MaxFaults
    /\ faults' = faults + 1
    /\ tmp' = IF truncated THEN [tmp EXCEPT ![OpDoc(ed[e].op)] = TmpFile(NullDoc)] ELSE tmp
    /\ ed' = [ed EXCEPT ![e].pc = "w_cleanup", ![e].tmpd = truncated, ![e].failed_io = TRUE]
    /\ UNCHANGED <<files, backups, now, last, clvars, epvars, rgvars, pmvars>>

\* temp_path.replace(path): moves whatever is at temp_path over the target;
\* FileNotFoundError when temp_path is gone
WriteRename(e) ==
    /\ ed[e].pc = "w_rename"
    /\ LET d == OpDoc(ed[e].op)
       IN IF tmp[d].present
          THEN /\ files' = [files EXCEPT ![d] = tmp[d].content]
               /\ tmp' = [tmp EXCEPT ![d] = NoTmp]
               /\ ed' = [ed EXCEPT ![e] = [Took(ed[e], "rename") EXCEPT
                               !.pc = "w_newsum", !.wrote = TRUE, !.replaced = files[d]]]
          ELSE /\ ed' = [ed EXCEPT ![e].pc = "w_cleanup", ![e].failed_io = TRUE]
               /\ UNCHANGED <<files, tmp>>
    /\ UNCHANGED <<backups, now, faults, last, clvars, epvars, rgvars, pmvars>>

\* the same, failing with an OSError: nothing is moved
WriteRenameFails(e) ==
    /\ ed[e].pc = "w_rename"
    /\ faults < MaxFaults
    /\ faults' = faults + 1
    /\ ed' = [ed EXCEPT ![e].pc = "w_cleanup", ![e].failed_io = TRUE]
    /\ UNCHANGED <<files, tmp, backups, now, last, clvars, epvars, rgvars, pmvars>>

\* new_checksum = self._calculate_checksum(path); return {"success": True,
\* "backup_path": str(backup_path), "new_checksum": new_checksum, ...}
WriteReturn(e) ==
    /\ ed[e].pc = "w_newsum"
    /\ Proceed(e, [ed[e] EXCEPT !.pc = "idle", !.status = "ok",
                       !.new_checksum = calculate_checksum(files[OpDoc(ed[e].op)])], tmp)
    /\ UNCHANGED <<files, tmp, backups, now, faults, clvars, epvars, rgvars, pmvars>>

\* the handler without its clean-up
Unlink_Skipped(t, d) == t

\* if temp_path.exists(): temp_path.unlink()
Unlink(t, d) == [t EXCEPT ![d] = NoTmp]

\* except Exception as e: <clean up temp file>; raise
WriteCleanup(e) ==
    /\ ed[e].pc = "w_cleanup"
    /\ tmp' = Unlink(tmp, OpDoc(ed[e].op))
    /\ Proceed(e, Raise(ed[e], "IOError"), tmp')
    /\ UNCHANGED <<files, backups, now, faults, clvars, epvars, rgvars, pmvars>>

Times == 0..MaxTime

NextFS ==
    \/ \E e \in Editors, d \in Docs : ReadContent(e, d)
    \/ \E e \in Editors : ReadChecksum(e)
    \/ \E e \in Editors, op \in WriteOps : CallWrite(e, op)
    \/ \E e \in Editors, op \in Mutators, a \in UniqueKeyArgs : CallUpdateUniquekey(e, op, a)
    \/ \E e \in Editors, p \in PeriodArgs : CallUpdatePeriod(e, p)
    \/ \E e \in Editors, b \in BOOLEAN : CallToggle(e, b)
    \/ \E e \in Editors : MutatorRead(e)
    \/ \E e \in Editors : MutatorCheckStep(e)
    \/ \E e \in Editors : WriteCheckStep(e)
    \/ \E e \in Editors, t \in Times : WriteBackup(e, t)
    \/ \E e \in Editors : WriteTemp(e)
    \/ \E e \in Editors, truncated \in BOOLEAN : WriteTempFails(e, truncated)
    \/ \E e \in Editors : WriteRename(e)
    \/ \E e \in Editors : WriteRenameFails(e)
    \/ \E e \in Editors : WriteReturn(e)
    \/ \E e \in Editors : WriteCleanup(e)

\* ------------------------------------------------------------------------
\* Cluster manager: nodes, remote trees, snapshots
\* ------------------------------------------------------------------------
\* the nodes of the registry, in the order of nodes_config['nodes'] (C is
\* registered with enabled: false), and a name the registry does not hold
Known == {"A", "B", "C"}

NodeOrder == <<"A", "B", "C">>

NodeArgs == Known \cup {"X"}

Range(s) == {s[i] : i \in DOMAIN s}

RECURSIVE SeqSum(_)
SeqSum(s) == IF s = <<>> THEN 0 ELSE Head(s) + SeqSum(Tail(s))

\* A node's configuration tree below conf_dir.  Every file is a .yml file
\* and is named by its path segments without the suffix: <<"conf">> is
\* conf.yml, <<"M", "s1">> is M/s1.yml.  <<>> is conf_dir itself and
\* <<"M">> the module directory.
TreeFiles == {<<"conf">>, <<"M", "s1">>, <<"M", "s2">>}

RootDir == <<>>

ModuleDir == <<"M">>

\* What a file holds: nothing (no such file), a YAML mapping whose
\* uniquekey.NumUniqKey is key, or a transfer cut short, which no longer
\* loads as YAML
NoFile == [kind |-> "none", key |-> 0]

Yaml(k) == [kind |-> "yaml", key |-> k]

Cut == [kind |-> "cut", key |-> 0]

InitialKey == 5

\* the new_value of the bulk edits
NewKey == 7

\* hash_md5.hexdigest() of a local file
file_checksum(content) == <<"md5", content>>

NoSum == <<>>

\* <snapshot_root>/<node>: conf.d/... and checksums.yaml
NoSnapshot ==
    [exists |-> FALSE, dirs |-> {}, files |-> [f \in TreeFiles |-> NoFile],
     manifest |-> FALSE, checksums |-> [f \in TreeFiles |-> NoSum]]

NoRet == [op |-> "none"]

InitCluster ==
    /\ registry = [n \in Known |-> n # "C"]
    /\ remote = [n \in Known |-> [f \in TreeFiles |-> Yaml(InitialKey)]]
    /\ snapshot = [n \in Known |-> NoSnapshot]
    /\ ret = NoRet
    /\ ncalls = 0
    /\ tfaults = 0

\* the callers of the manager; each makes one handler call
Callers == {"ui", "cli"}

MayCall == ncalls < Cardinality(Callers)

\* the handler returns r, the transport having failed k times during the call
Return(r, k) ==
    /\ ncalls' = ncalls + 1
    /\ tfaults' = tfaults + k
    /\ ret' = r

\* get_enabled_nodes(), in registry order
get_enabled_nodes(reg) == SelectSeq(NodeOrder, LAMBDA n : reg[n])

\* the node's operator removes a file from its configuration tree
RemoteRemove(n, f) ==
    /\ MayCall
    /\ registry[n]
    /\ remote[n][f] # NoFile
    /\ Cardinality({x \in Known \X TreeFiles : remote[x[1]][x[2]] = NoFile}) < MaxGone
    /\ remote' = [remote EXCEPT ![n][f] = NoFile]
    /\ ret' = NoRet
    /\ UNCHANGED <<registry, snapshot, ncalls, tfaults, fsvars, epvars, rgvars, pmvars>>

\* ------------------------------------------------------------------------
\* _sync_directory_from_remote
\* ------------------------------------------------------------------------
\* What _sync_recursive comes to in one directory.  listed: listdir_attr
\* succeeded.  The items are taken in the order the server lists them until
\* a download fails, which ends the directory: done are the items taken
\* before that, stop is the file whose sftp.get failed (<<>> when none did)
\* and cut tells whether that get left a partial local file behind.
DirRun(listed, done, stop, cut) ==
    [listed |-> listed, done |-> done, stop |-> stop, cut |-> cut]

Present(tree) == {f \in TreeFiles : tree[f] # NoFile}

\* the entries listdir_attr returns for a directory of a tree whose files
\* are present: its files and, in conf_dir, the module directory
DirFiles(present, dir) == {f \in present : Len(f) = Len(dir) + 1}

DirItems(present, dir) ==
    DirFiles(present, dir) \cup (IF dir = RootDir THEN {ModuleDir} ELSE {})

WholeDir(present, dir) == DirRun(TRUE, DirItems(present, dir), <<>>, FALSE)

DirRuns(present, dir) ==
    {WholeDir(present, dir), DirRun(FALSE, {}, <<>>, FALSE)}
    \cup UNION {{DirRun(TRUE, d, f, c) : d \in SUBSET (DirItems(present, dir) \ {f}), c \in BOOLEAN}
                   : f \in DirFiles(present, dir)}

RunFaults(r) == (IF r.listed THEN 0 ELSE 1) + (IF r.stop # <<>> THEN 1 ELSE 0)

\* the transport's behaviour during one fetch: whether the connection is
\* made, and what the walk comes to in conf_dir and in the module directory
FetchFaults(p) == (IF p.connect THEN 0 ELSE 1) + RunFaults(p.root) + RunFaults(p.mod)

NoFaults(present) ==
    [connect |-> TRUE, root |-> WholeDir(present, RootDir), mod |-> WholeDir(present, ModuleDir)]

\* the plans of at most budget failures for a tree whose files are present
FetchPlansFor(present, budget) ==
    (IF budget >= 1 THEN {[NoFaults(present) EXCEPT !.connect = FALSE]} ELSE {})
    \cup UNION {{[connect |-> TRUE, root |-> r, mod |-> m] :
                    m \in IF ModuleDir \in r.done
                           THEN {x \in DirRuns(present, ModuleDir) :
                                    RunFaults(x) + RunFaults(r) <= budget}
                           ELSE {WholeDir(present, ModuleDir)}}
                   : r \in {x \in DirRuns(present, RootDir) : RunFaults(x) <= budget}}

FetchPlans(tree, budget) == FetchPlansFor(Present(tree), budget)

Taken(run, item) == run.listed /\ item \in run.done

RunOf(p, f) == IF Len(f) = 1 THEN p.root ELSE p.mod

Entered(p, f) == Len(f) = 1 \/ Taken(p.root, ModuleDir)

\* sftp.get(remote_item_path, str(local_item_path)) succeeded
Downloaded(p, f) == Entered(p, f) /\ Taken(RunOf(p, f), f)

\* sftp.get failed and left a partial local file
LeftCut(p, f) ==
    Entered(p, f) /\ RunOf(p, f).listed /\ RunOf(p, f).stop = f /\ RunOf(p, f).cut

\* an exception that _sync_recursive caught and logged
WalkFailed(p) ==
    \/ ~p.root.listed
    \/ p.root.stop # <<>>
    \/ Taken(p.root, ModuleDir) /\ (~p.mod.listed \/ p.mod.stop # <<>>)

\* local_dir.mkdir(parents=True, exist_ok=True); _sync_recursive(...);
\* return checksums.  local is the snapshot directory as it is when the
\* walk begins.
sync_directory_from_remote(local, tree, p) ==
    [exists |-> TRUE,
     dirs |-> local.dirs \cup {RootDir}
                  \cup (IF Taken(p.root, ModuleDir) THEN {ModuleDir} ELSE {}),
     files |-> [f \in TreeFiles |->
                   IF Downloaded(p, f) THEN tree[f]
                   ELSE IF LeftCut(p, f) THEN Cut
                   ELSE local.files[f]],
     manifest |-> local.manifest,
     checksums |-> [f \in TreeFiles |->
                       IF Downloaded(p, f) THEN file_checksum(tree[f]) ELSE NoSum]]

\* ------------------------------------------------------------------------
\* fetch_node_config / fetch_all_configs
\* ------------------------------------------------------------------------
\* the fetch that keeps the previous snapshot
RemoveSnapshot_Kept(snap) == snap

\* if node_snapshot_dir.exists(): shutil.rmtree(node_snapshot_dir)
RemoveSnapshot(snap) == NoSnapshot

\* the handler that does not look at the enabled flag
Refused_Never(reg, n) == FALSE

\* if not node_config.get('enabled', True): the call stops before
\* _create_ssh_connection
Refused(reg, n) == ~reg[n]

\* fetch_node_config(node_name) for a registered node: the value returned,
\* the snapshot directory the call leaves and whether the call reached
\* _create_ssh_connection
fetch_node_config(reg, snap, tree, n, p) ==
    IF Refused(reg, n) THEN [ok |-> FALSE, snap |-> snap, tried |-> FALSE]
    ELSE IF ~p.connect THEN [ok |-> FALSE, snap |-> snap, tried |-> TRUE]
    ELSE [ok |-> TRUE,
          snap |-> [sync_directory_from_remote(RemoveSnapshot(snap), tree, p)
                       EXCEPT !.manifest = TRUE],
          tried |-> TRUE]

\* the transports' behaviour during one fetch_all_configs: a plan for every
\* node from the i-th of the registry on, with at most budget failures in all
RECURSIVE FetchAllPlans(_, _, _, _)
FetchAllPlans(reg, trees, i, budget) ==
    IF i > Len(NodeOrder) THEN {[n \in {} |-> 0]}
    ELSE LET n == NodeOrder[i]
             here == FetchPlans(trees[n], IF reg[n] THEN budget ELSE 0)
         IN UNION {{[m \in (DOMAIN rest) \cup {n} |-> IF m = n THEN p ELSE rest[m]] :
                       rest \in FetchAllPlans(reg, trees, i + 1, budget - FetchFaults(p))}
                      : p \in here}

\* before: the files of the snapshot the call found; trouble: a listing or
\* a download failed during the walk
FetchNode(n) ==
    /\ MayCall
    /\ n \in Known
    /\ \E p \in FetchPlans(remote[n], MaxFaults - tfaults) :
       \E r \in {fetch_node_config(registry, snapshot[n], remote[n], n, p)} :
          /\ snapshot' = [snapshot EXCEPT ![n] = r.snap]
          /\ Return([op |-> "fetch_node", node |-> n, ok |-> r.ok,
                     contacted |-> IF r.tried THEN {n} ELSE {},
                     before |-> snapshot[n].files,
                     trouble |-> registry[n] /\ p.connect /\ WalkFailed(p)],
                    FetchFaults(p))
    /\ UNCHANGED <<registry, remote, fsvars, epvars, rgvars, pmvars>>

\* if node_name not in nodes: return False
FetchUnknownNode(n) ==
    /\ MayCall
    /\ n \notin Known
    /\ Return([op |-> "fetch_node", node |-> n, ok |-> FALSE, contacted |-> {},
               before |-> NoSnapshot.files, trouble |-> FALSE], 0)
    /\ UNCHANGED <<registry, remote, snapshot, fsvars, epvars, rgvars, pmvars>>

\* fetch_all_configs(): results[node_name] = self.fetch_node_config(node_name)
\* for each enabled node.  failed: the nodes whose entry is False.
FetchAll ==
    /\ MayCall
    /\ \E enabled \in {Range(get_enabled_nodes(registry))},
          plans \in FetchAllPlans(registry, remote, 1, MaxFaults - tfaults) :
          /\ \E r \in {[n \in enabled |->
                           fetch_node_config(registry, snapshot[n], remote[n], n, plans[n])]} :
                /\ snapshot' = [n \in Known |-> IF n \in enabled THEN r[n].snap ELSE snapshot[n]]
                /\ Return([op |-> "fetch_all", result |-> [n \in enabled |-> r[n].ok],
                           contacted |-> {n \in enabled : r[n].tried},
                           failed |-> {n \in enabled : ~r[n].ok}],
                          SeqSum([i \in DOMAIN NodeOrder |-> FetchFaults(plans[NodeOrder[i]])]))
    /\ UNCHANGED <<registry, remote, fsvars, epvars, rgvars, pmvars>>

\* ------------------------------------------------------------------------
\* push_all_local_configs_to_node
\* ------------------------------------------------------------------------
\* the transport's behaviour during one push: whether the connection is
\* made and, per file, whether sftp.put succeeds ("ok"), fails leaving the
\* remote file as it was ("put") or fails leaving it cut short ("put_cut")
PushFaults(p) ==
    (IF p.connect THEN 0 ELSE 1) + Cardinality({f \in DOMAIN p.put : p.put[f] # "ok"})

PushPlans(fs, budget) ==
    {p \in [connect : BOOLEAN, put : [fs -> {"ok", "put", "put_cut"}]] :
        /\ PushFaults(p) <= budget
        /\ ~p.connect => \A f \in fs : p.put[f] = "ok"}

PushResult(success, pushed, total, failed, errors) ==
    [success |-> success, files_pushed |-> pushed, total_files |-> total,
     failed_files |-> failed, errors |-> errors]

\* local_config_dir.rglob("*.yml")
SnapshotFiles(snap) == {f \in TreeFiles : snap.files[f] # NoFile}

\* the tree of the node after the loop over config_files
PushedTree(snap, tree, p) ==
    [f \in TreeFiles |->
        IF f \notin SnapshotFiles(snap) THEN tree[f]
        ELSE IF p.put[f] = "ok" THEN snap.files[f]
        ELSE IF p.put[f] = "put_cut" THEN Cut
        ELSE tree[f]]

\* push_all_local_configs_to_node(node_name, create_backup) for a registered
\* node; with create_backup it only logs a backup name and copies nothing.
\* The value returned, the tree the call leaves on the node, the backups it
\* made and the remote files it wrote.
push_all_local_configs_to_node(reg, snap, tree, n, backup, p) ==
    LET fs == SnapshotFiles(snap)
        ok == {f \in fs : p.put[f] = "ok"}
        unreached(error) ==
            [result |-> PushResult(FALSE, 0, 0, {}, {error}), tree |-> tree,
             tried |-> FALSE, backups |-> {}, wrote |-> {}]
    IN IF Refused(reg, n) THEN unreached("disabled")
       ELSE IF ~(snap.exists /\ RootDir \in snap.dirs) THEN unreached("no snapshot")
       ELSE IF fs = {} THEN unreached("no files")
       ELSE IF ~p.connect
       THEN [result |-> PushResult(FALSE, 0, Cardinality(fs), {}, {"connection"}), tree |-> tree,
             tried |-> TRUE, backups |-> {}, wrote |-> {}]
       ELSE [result |-> PushResult(Cardinality(ok) > 0, Cardinality(ok), Cardinality(fs),
                                   {[file |-> f, error |-> "put"] : f \in fs \ ok}, {}),
             tree |-> PushedTree(snap, tree, p), tried |-> TRUE, backups |-> {},
             wrote |-> {f \in fs : p.put[f] \in {"ok", "put_cut"}}]

\* failed: the files the call was to push and did not
PushAll(n, backup) ==
    /\ MayCall
    /\ n \in Known
    /\ \E p \in PushPlans(SnapshotFiles(snapshot[n]), MaxFaults - tfaults) :
       \E r \in {push_all_local_configs_to_node(registry, snapshot[n], remote[n], n,
                                                backup, p)} :
          /\ remote' = [remote EXCEPT ![n] = r.tree]
          /\ Return([op |-> "push_all", node |-> n, backup |-> backup,
                     backups |-> r.backups, wrote |-> r.wrote, result |-> r.result,
                     contacted |-> IF r.tried THEN {n} ELSE {},
                     failed |-> IF ~registry[n] THEN {}
                                ELSE {f \in SnapshotFiles(snapshot[n]) :
                                         ~p.connect \/ p.put[f] # "ok"}],
                    PushFaults(p))
    /\ UNCHANGED <<registry, snapshot, fsvars, epvars, rgvars, pmvars>>

\* ------------------------------------------------------------------------
\* bulk_edit_submodule_unique_keys / bulk_edit_all_nodes_unique_keys
\* ------------------------------------------------------------------------
\* A submodule path is the sequence of its '/'-separated segments:
\* <<"M", "s1">> is "M/s1", <<"nosep">> has no separator.  An update map is
\* the sequence of its keys in dict order; every key maps to NewKey.
UpdateMaps ==
    {<<<<"M", "s1">>, <<"M", "s2">>>>,
     <<<<"M", "s2">>, <<"nosep">>, <<"M", "s1">>>>,
     <<<<"M", "s3">>, <<"M", "s1">>>>}

\* the transport's behaviour during one bulk edit of a node: whether the
\* connection is made and, per item, whether sftp.get fails ("get"),
\* sftp.put fails leaving the remote file as it was ("put") or cut short
\* ("put_cut"), or neither fails ("ok")
BulkFaults(p) ==
    (IF p.connect THEN 0 ELSE 1) + Cardinality({u \in DOMAIN p.item : p.item[u] # "ok"})

BulkPlans(updates, budget) ==
    {p \in [connect : BOOLEAN, item : [Range(updates) -> {"ok", "get", "put", "put_cut"}]] :
        /\ BulkFaults(p) <= budget
        /\ ~p.connect => \A u \in Range(updates) : p.item[u] = "ok"}

\* the transports' behaviour during one bulk_edit_all_nodes_unique_keys: a
\* plan for every node from the i-th of the registry on, with at most budget
\* failures in all
RECURSIVE BulkAllPlans(_, _, _, _)
BulkAllPlans(reg, updates, i, budget) ==
    IF i > Len(NodeOrder) THEN {[n \in {} |-> 0]}
    ELSE LET n == NodeOrder[i]
         IN UNION {{[m \in (DOMAIN rest) \cup {n} |-> IF m = n THEN p ELSE rest[m]] :
                       rest \in BulkAllPlans(reg, updates, i + 1, budget - BulkFaults(p))}
                      : p \in BulkPlans(updates, IF reg[n] THEN budget ELSE 0)}

\* {path: False for path in unique_key_updates.keys()}
AllFalse(updates) == [u \in Range(updates) |-> FALSE]

\* results[submodule_path] = value
SetResult(results, u, value) ==
    [x \in (DOMAIN results) \cup {u} |-> IF x = u THEN value ELSE results[x]]

\* module_name, submodule_name = submodule_path.split('/', 1) raises
\* ValueError when there is no separator
Malformed(u) == Len(u) < 2

\* the fetch, the parse or the push of the item fails
ItemFails(tree, u, fault) ==
    \/ Malformed(u)
    \/ u \notin TreeFiles
    \/ tree[u].kind # "yaml"
    \/ fault # "ok"

\* one pass of the loop body: download, load, set NumUniqKey, dump, upload
EditItem(tree, u, fault) ==
    IF ItemFails(tree, u, fault)
    THEN [ok |-> FALSE,
          tree |-> IF ~Malformed(u) /\ u \in TreeFiles /\ tree[u].kind = "yaml" /\ fault = "put_cut"
                   THEN [tree EXCEPT ![u] = Cut] ELSE tree]
    ELSE [ok |-> TRUE, tree |-> [tree EXCEPT ![u] = Yaml(NewKey)]]

\* finally: os.unlink(temp_path), on the scratch files that exist
UnlinkScratch_Skipped(scratch, u) == scratch

UnlinkScratch(scratch, u) == scratch \ {u}

\* for submodule_path, new_value in unique_key_updates.items(): ...
\* created: the items NamedTemporaryFile(delete=False) made a scratch file
\* for (the split of a malformed path raises before it); scratch: the
\* scratch files that exist
RECURSIVE EditItems(_, _, _, _)
EditItems(acc, updates, i, p) ==
    IF i > Len(updates) THEN acc
    ELSE LET u == updates[i]
             step == EditItem(acc.tree, u, p.item[u])
         IN EditItems([results |-> SetResult(acc.results, u, step.ok), tree |-> step.tree,
                       attempted |-> acc.attempted \cup {u},
                       created |-> IF Malformed(u) THEN acc.created
                                   ELSE acc.created \cup {u},
                       scratch |-> IF Malformed(u) THEN acc.scratch
                                   ELSE UnlinkScratch(acc.scratch \cup {u}, u)],
                      updates, i + 1, p)

\* bulk_edit_submodule_unique_keys(node_name, unique_key_updates,
\* create_backup): the map returned, the tree the call leaves on the node
\* and the items whose loop body ran.  self.create_node_backup is not a
\* method of the class: with create_backup the call raises AttributeError
\* inside the outer try, before the connection is made.
bulk_edit_submodule_unique_keys(reg, tree, n, updates, backup, p) ==
    IF n \notin Known \/ Refused(reg, n) \/ backup
    THEN [results |-> AllFalse(updates), tree |-> tree, attempted |-> {}, tried |-> FALSE,
          created |-> {}, scratch |-> {}]
    ELSE IF ~p.connect
    THEN [results |-> AllFalse(updates), tree |-> tree, attempted |-> {}, tried |-> TRUE,
          created |-> {}, scratch |-> {}]
    ELSE [tried |-> TRUE]
         @@ EditItems([results |-> [u \in {} |-> FALSE], tree |-> tree, attempted |-> {},
                       created |-> {}, scratch |-> {}],
                      updates, 1, p)

\* failing: the items whose fetch, parse or push fails
BulkEdit(n, updates, backup) ==
    /\ MayCall
    /\ n \in Known
    /\ \E p \in BulkPlans(updates, MaxFaults - tfaults) :
       \E r \in {bulk_edit_submodule_unique_keys(registry, remote[n], n, updates, backup, p)} :
          /\ remote' = [remote EXCEPT ![n] = r.tree]
          /\ Return([op |-> "bulk_edit", node |-> n, updates |-> updates, backup |-> backup,
                     connected |-> p.connect, result |-> r.results, attempted |-> r.attempted,
                     created |-> r.created, scratch |-> r.scratch,
                     contacted |-> IF r.tried THEN {n} ELSE {},
                     failing |-> {u \in Range(updates) : ItemFails(remote[n], u, p.item[u])},
                     failed |-> {u \in Range(updates) : ~r.results[u]}],
                    BulkFaults(p))
    /\ UNCHANGED <<registry, snapshot, fsvars, epvars, rgvars, pmvars>>

\* if node_name not in self.nodes_config.get('nodes', {}): return {path:
\* False ...}
BulkEditUnknownNode(n, updates, backup) ==
    /\ MayCall
    /\ n \notin Known
    /\ Return([op |-> "bulk_edit", node |-> n, updates |-> updates, backup |-> backup,
               connected |-> FALSE, result |-> AllFalse(updates), attempted |-> {},
               created |-> {}, scratch |-> {}, contacted |-> {},
               failing |-> {u \in Range(updates) : ItemFails(remote["A"], u, "ok")},
               failed |-> Range(updates)], 0)
    /\ UNCHANGED <<registry, remote, snapshot, fsvars, epvars, rgvars, pmvars>>

\* target_nodes of bulk_edit_all_nodes_unique_keys: None, or a list of names
TargetArgs ==
    {[given |-> FALSE, nodes |-> <<>>],
     [given |-> TRUE, nodes |-> <<"B", "C", "A">>],
     [given |-> TRUE, nodes |-> <<"A", "X", "B">>]}

\* the loop that gives up at the first node on which nothing succeeded
NextTarget_StopOnFailure(targets, i, node_results) ==
    IF \E u \in DOMAIN node_results : node_results[u] THEN i + 1 ELSE Len(targets) + 1

\* the loop goes on to the next target whatever the node's results were
NextTarget(targets, i, node_results) == i + 1

\* for node_name in target_nodes: ...; all_results[node_name] = node_results
RECURSIVE EditNodes(_, _, _, _, _, _, _)
EditNodes(acc, reg, targets, i, updates, backup, plans) ==
    IF i > Len(targets) THEN acc
    ELSE LET n == targets[i]
             r == IF n \notin Known
                  THEN [results |-> AllFalse(updates), tree |-> <<>>, tried |-> FALSE]
                  ELSE bulk_edit_submodule_unique_keys(reg, acc.remote[n], n, updates, backup, plans[n])
         IN EditNodes([all_results |-> SetResult(acc.all_results, n, r.results),
                       remote |-> IF n \in Known THEN [acc.remote EXCEPT ![n] = r.tree]
                                  ELSE acc.remote,
                       visited |-> Append(acc.visited, n),
                       contacted |-> acc.contacted \cup (IF r.tried THEN {n} ELSE {})],
                      reg, targets, NextTarget(targets, i, r.results), updates, backup, plans)

\* bulk_edit_all_nodes_unique_keys(unique_key_updates, target_nodes,
\* create_backup)
bulk_edit_all_nodes_unique_keys(reg, trees, updates, target, backup, plans) ==
    EditNodes([all_results |-> [n \in {} |-> <<>>], remote |-> trees, visited |-> <<>>,
               contacted |-> {}],
              reg, IF target.given THEN target.nodes ELSE get_enabled_nodes(reg),
              1, updates, backup, plans)

\* down: the nodes the connection cannot be made to; visited: the nodes in
\* the order the loop took them
BulkEditAll(updates, target, backup) ==
    /\ MayCall
    /\ \E plans \in BulkAllPlans(registry, updates, 1, MaxFaults - tfaults) :
       \E r \in {bulk_edit_all_nodes_unique_keys(registry, remote, updates, target, backup, plans)},
          targets \in {IF target.given THEN target.nodes ELSE get_enabled_nodes(registry)} :
          /\ remote' = r.remote
          /\ Return([op |-> "bulk_edit_all", given |-> target.given, targets |-> targets,
                     updates |-> updates, backup |-> backup,
                     down |-> {n \in Known : ~plans[n].connect},
                     result |-> r.all_results, visited |-> r.visited,
                     contacted |-> r.contacted,
                     failed |-> UNION {{<<n, u>> : u \in {x \in DOMAIN r.all_results[n] :
                                                               ~r.all_results[n][x]}}
                                          : n \in DOMAIN r.all_results}],
                    SeqSum([i \in DOMAIN NodeOrder |-> BulkFaults(plans[NodeOrder[i]])]))
    /\ UNCHANGED <<registry, snapshot, fsvars, epvars, rgvars, pmvars>>

\* ------------------------------------------------------------------------
\* push_file_to_node / restart_vudatasim / push_all_local_configs_to_all_nodes
\* ------------------------------------------------------------------------
\* relative_path.stem of a snapshot file: the file name without directories
\* and without the suffix
Stem(f) == f[Len(f)]

\* ClusterManager.create_backup(node_name, file_path): the copies it leaves
\* under backups/<node>/, each named <stem>_<timestamp>.yml.  It returns
\* False, and leaves nothing, when the local file is missing or the copy
\* fails.
cluster_create_backup(snap, f, t, copies) ==
    IF snap.files[f] = NoFile \/ ~copies THEN {}
    ELSE {[name |-> <<Stem(f), t>>, content |-> snap.files[f]]}

\* the transport and the local disk during one push_file_to_node: whether
\* the connection is made, whether shutil.copy2 of the backup succeeds, and
\* whether sftp.put succeeds
PushFileFaults(p) ==
    (IF p.connect THEN 0 ELSE 1) + (IF p.copies THEN 0 ELSE 1)
    + (IF p.put = "ok" THEN 0 ELSE 1)

PushFilePlans(budget) ==
    {p \in [connect : BOOLEAN, copies : BOOLEAN, put : {"ok", "put", "put_cut"}] :
        /\ PushFileFaults(p) <= budget
        /\ ~p.connect => (p.copies /\ p.put = "ok")}

\* push_file_to_node(node_name, local_file, remote_file, create_backup) with
\* local_file the snapshot's copy of f and remote_file its place on the
\* node: the value returned, the tree the call leaves on the node, the
\* backups it made and whether the remote file was written
push_file_to_node(reg, snap, tree, n, f, backup, t, p) ==
    IF n \notin Known \/ Refused(reg, n)
    THEN [ok |-> FALSE, tree |-> tree, backups |-> {}, tried |-> FALSE, wrote |-> FALSE]
    ELSE IF ~p.connect
    THEN [ok |-> FALSE, tree |-> tree, backups |-> {}, tried |-> TRUE, wrote |-> FALSE]
    ELSE LET made == IF backup THEN cluster_create_backup(snap, f, t, p.copies) ELSE {}
         IN IF snap.files[f] = NoFile
            THEN [ok |-> FALSE, tree |-> tree, backups |-> made, tried |-> TRUE,
                  wrote |-> FALSE]
            ELSE IF p.put = "ok"
            THEN [ok |-> TRUE, tree |-> [tree EXCEPT ![f] = snap.files[f]],
                  backups |-> made, tried |-> TRUE, wrote |-> TRUE]
            ELSE [ok |-> FALSE,
                  tree |-> IF p.put = "put_cut" THEN [tree EXCEPT ![f] = Cut] ELSE tree,
                  backups |-> made, tried |-> TRUE, wrote |-> p.put = "put_cut"]

PushFile(n, f, backup) ==
    /\ MayCall
    /\ \E p \in PushFilePlans(MaxFaults - tfaults) :
       \E r \in {push_file_to_node(registry, IF n \in Known THEN snapshot[n] ELSE NoSnapshot,
                                    IF n \in Known THEN remote[n] ELSE NoSnapshot.files,
                                    n, f, backup, now, p)} :
          /\ remote' = [m \in Known |-> IF m = n THEN r.tree ELSE remote[m]]
          /\ Return([op |-> "push_file", node |-> n, file |-> f, backup |-> backup,
                     ok |-> r.ok, contacted |-> IF r.tried THEN {n} ELSE {},
                     backups |-> r.backups, wrote |-> IF r.wrote THEN {f} ELSE {}],
                    IF r.tried THEN PushFileFaults(p) ELSE 0)
    /\ UNCHANGED <<registry, snapshot, fsvars, epvars, rgvars, pmvars>>

\* the transport during one restart_vudatasim: whether the connection is
\* made and whether the two exec_command calls go through
RestartPlans(budget) ==
    {p \in [connect : BOOLEAN, exec : BOOLEAN] :
        /\ (IF p.connect THEN 0 ELSE 1) + (IF p.exec THEN 0 ELSE 1) <= budget
        /\ ~p.connect => p.exec}

\* restart_vudatasim(node_name): the value returned and whether the call
\* reached _create_ssh_connection
restart_vudatasim(reg, n, p) ==
    IF n \notin Known \/ Refused(reg, n) THEN [ok |-> FALSE, tried |-> FALSE]
    ELSE [ok |-> p.connect /\ p.exec, tried |-> TRUE]

Restart(n) ==
    /\ MayCall
    /\ \E p \in RestartPlans(MaxFaults - tfaults) :
       \E r \in {restart_vudatasim(registry, n, p)} :
          Return([op |-> "restart", node |-> n, ok |-> r.ok,
                  contacted |-> IF r.tried THEN {n} ELSE {}],
                 IF r.tried /\ ~r.ok THEN 1 ELSE 0)
    /\ UNCHANGED <<registry, remote, snapshot, fsvars, epvars, rgvars, pmvars>>

\* the transports' behaviour during one push_all_local_configs_to_all_nodes:
\* a plan for every node from the i-th of the registry on, with at most
\* budget failures in all
RECURSIVE PushAllPlans(_, _, _, _)
PushAllPlans(reg, snaps, i, budget) ==
    IF i > Len(NodeOrder) THEN {[n \in {} |-> 0]}
    ELSE LET n == NodeOrder[i]
         IN UNION {{[m \in (DOMAIN rest) \cup {n} |-> IF m = n THEN p ELSE rest[m]] :
                       rest \in PushAllPlans(reg, snaps, i + 1, budget - PushFaults(p))}
                      : p \in PushPlans(SnapshotFiles(snaps[n]), IF reg[n] THEN budget ELSE 0)}

\* result of push_all_local_configs_to_node for a name the registry does
\* not hold
NodeNotFound == PushResult(FALSE, 0, 0, {}, {"not found"})

\* for node_name in target_nodes: results[node_name] =
\* self.push_all_local_configs_to_node(node_name, create_backup)
RECURSIVE PushNodes(_, _, _, _, _, _, _)
PushNodes(acc, reg, snaps, targets, backup, i, plans) ==
    IF i > Len(targets) THEN acc
    ELSE LET n == targets[i]
             r == IF n \notin Known
                  THEN [result |-> NodeNotFound, tree |-> <<>>, tried |-> FALSE]
                  ELSE push_all_local_configs_to_node(reg, snaps[n], acc.remote[n], n,
                                                      backup, plans[n])
         IN PushNodes([results |-> SetResult(acc.results, n, r.result),
                       remote |-> IF n \in Known THEN [acc.remote EXCEPT ![n] = r.tree]
                                  ELSE acc.remote,
                       visited |-> Append(acc.visited, n),
                       contacted |-> acc.contacted \cup (IF r.tried THEN {n} ELSE {})],
                      reg, snaps, targets, backup, i + 1, plans)

\* push_all_local_configs_to_all_nodes(target_nodes, create_backup)
push_all_local_configs_to_all_nodes(reg, snaps, trees, target, backup, plans) ==
    PushNodes([results |-> [n \in {} |-> <<>>], remote |-> trees, visited |-> <<>>,
               contacted |-> {}],
              reg, snaps, IF target.given THEN target.nodes ELSE get_enabled_nodes(reg),
              backup, 1, plans)

PushAllNodes(target, backup) ==
    /\ MayCall
    /\ \E plans \in PushAllPlans(registry, snapshot, 1, MaxFaults - tfaults) :
       \E r \in {push_all_local_configs_to_all_nodes(registry, snapshot, remote, target,
                                                     backup, plans)} :
          /\ remote' = r.remote
          /\ Return([op |-> "push_all_nodes", given |-> target.given, result |-> r.results,
                     visited |-> r.visited, contacted |-> r.contacted],
                    SeqSum([i \in DOMAIN r.visited |->
                               IF r.visited[i] \in r.contacted
                               THEN PushFaults(plans[r.visited[i]]) ELSE 0]))
    /\ UNCHANGED <<registry, snapshot, fsvars, epvars, rgvars, pmvars>>

\* ------------------------------------------------------------------------
\* ProcessManager: start_binary, stop_binary, get_status
\* ------------------------------------------------------------------------
\* The repository holds two binary_manager.py: the one test_timeout.py
\* imports (vudatasim-web-ui), whose get_status does not look at the
\* timeout, and the one of vuDataSim_2, whose get_status does.
Builds == {"vudatasim-web-ui", "vuDataSim_2"}

\* the timeouts start_binary is called with; 0 means none
Timeouts == {0, 2}

NotManaged == [managed |-> FALSE, status |-> "none", timeout |-> 0, start_time |-> 0, run |-> 0]

NoProcessCall == [op |-> "none"]

\* start_binary(binary_name, timeout) when Popen succeeds; it raises
\* ValueError while the entry's status is "running"
start_binary(timeout) ==
    /\ ~(processes.managed /\ processes.status = "running")
    /\ processes.run < MaxRuns
    /\ processes' = [managed |-> TRUE, status |-> "running", timeout |-> timeout,
                     start_time |-> clock, run |-> processes.run + 1]
    /\ alive' = TRUE
    /\ pm_last' = [op |-> "start_binary", status |-> "started"]
    /\ UNCHANGED <<build, clock>>

\* the body of stop_binary: terminate, wait, kill, wait.  stops says
\* whether the waits return; otherwise the except branch returns success
\* False and the entry stays "running".
StopResult(info, stops) ==
    IF ~info.managed \/ info.status # "running" THEN [success |-> FALSE, info |-> info]
    ELSE IF stops THEN [success |-> TRUE, info |-> [info EXCEPT !.status = "stopped"]]
    ELSE [success |-> FALSE, info |-> info]

stop_binary(stops) ==
    /\ LET r == StopResult(processes, stops)
       IN /\ processes' = r.info
          /\ alive' = (alive /\ ~r.success)
          /\ pm_last' = [op |-> "stop_binary", status |-> IF r.success THEN "stopped" ELSE "failed"]
    /\ UNCHANGED <<build, clock>>

\* if timeout > 0 and elapsed_seconds >= timeout, in the build that has
\* the check
TimedOut_Never(b, info, t) == FALSE

TimedOut(b, info, t) ==
    b = "vuDataSim_2" /\ info.timeout > 0 /\ t - info.start_time >= info.timeout

\* get_status(binary_name).  was_alive, timeout and elapsed describe the
\* run as the call found it.
get_status(stops) ==
    /\ LET asked == [op |-> "get_status", was_alive |-> alive, run |-> processes.run,
                     timeout |-> processes.timeout,
                     elapsed |-> clock - processes.start_time]
       IN IF ~processes.managed
          THEN /\ pm_last' = [asked EXCEPT !.was_alive = FALSE] @@ [status |-> "not_managed"]
               /\ UNCHANGED <<processes, alive>>
          ELSE IF alive
          THEN IF TimedOut(build, processes, clock)
               THEN LET r == StopResult(processes, stops)
                    IN /\ processes' = r.info
                       /\ alive' = ~r.success
                       /\ pm_last' = asked @@ [status |-> IF r.success THEN "timeout"
                                                          ELSE "running"]
               ELSE /\ pm_last' = asked @@ [status |-> "running"]
                    /\ UNCHANGED <<processes, alive>>
          ELSE /\ processes' = [processes EXCEPT !.status = "exited"]
               /\ pm_last' = asked @@ [status |-> "exited"]
               /\ UNCHANGED alive
    /\ UNCHANGED <<build, clock>>

\* cleanup_finished_processes()
cleanup_finished_processes ==
    /\ processes.managed /\ processes.status \in {"stopped", "exited"}
    /\ processes' = [NotManaged EXCEPT !.run = processes.run]
    /\ pm_last' = [op |-> "cleanup", status |-> "done"]
    /\ UNCHANGED <<build, alive, clock>>

\* the binary exits on its own
ProcessExits ==
    /\ alive
    /\ alive' = FALSE
    /\ pm_last' = NoProcessCall
    /\ UNCHANGED <<build, processes, clock>>

\* a second passes
Tick ==
    /\ clock < MaxClock
    /\ clock' = clock + 1
    /\ pm_last' = NoProcessCall
    /\ UNCHANGED <<build, processes, alive>>

\* the process manager the other behaviours leave alone
InitProcessIdle ==
    /\ build = "vuDataSim_2"
    /\ processes = NotManaged
    /\ alive = FALSE
    /\ clock = 0
    /\ pm_last = NoProcessCall

\* ------------------------------------------------------------------------
\* ClusterManager.add_node / remove_node
\* ------------------------------------------------------------------------
RegNames == {"A", "B"}

\* the definitions add_node is called with
NodeDefs == {[host |-> "h1", enabled |-> TRUE], [host |-> "h2", enabled |-> FALSE]}

\* nodes_config['nodes'] with no node
NoNodes == [n \in {} |-> 0]

\* the nodes file: the mapping yaml.dump wrote, or a file that open(..., 'w')
\* truncated and yaml.dump did not finish ("cut")
NodesFile(nodes) == [state |-> "ok", nodes |-> nodes]

CutFile == [state |-> "cut", nodes |-> NoNodes]

\* a node's directories under conf_snapshots_dir and backups_dir: absent
\* ("none"), present ("full"), or left half deleted by a failed rmtree
\* ("partial")
DirStates == {"none", "full", "partial"}

NoRegCall == [op |-> "none"]

\* self.nodes_config['nodes'][name] = {...}
SetNode(nodes, name, def) ==
    [n \in (DOMAIN nodes) \cup {name} |-> IF n = name THEN def ELSE nodes[n]]

\* del self.nodes_config['nodes'][name]
DelNode(nodes, name) == [n \in (DOMAIN nodes) \ {name} |-> nodes[n]]

\* with open(self.nodes_file, 'w') as f: yaml.dump(self.nodes_config, f):
\* the file afterwards when open raises ("open"), when the dump raises
\* after the file was truncated ("dump"), and when neither does ("ok")
SaveNodes(file, nodes, io) ==
    IF io = "open" THEN file
    ELSE IF io = "dump" THEN CutFile
    ELSE NodesFile(nodes)

\* the registry before a call, kept with the call's result
RegState == [nodes_config |-> nodes_config, nodes_file |-> nodes_file, node_dirs |-> node_dirs]

\* add_node(name, ...): the assignment comes before the save, and the
\* except branch returns False without undoing it
add_node(name, def, io) ==
    /\ nodes_config' = SetNode(nodes_config, name, def)
    /\ nodes_file' = SaveNodes(nodes_file, nodes_config', io)
    /\ reg_last' = [op |-> "add_node", name |-> name, ok |-> io = "ok", before |-> RegState]
    /\ UNCHANGED <<node_dirs, fsvars, clvars, epvars, pmvars>>

\* shutil.rmtree(dir) if dir.exists(): the directory afterwards
Rmtree(dir, fails) == IF dir = "none" THEN "none" ELSE IF fails THEN "partial" ELSE "none"

\* remove_node(name) for a registered name.  io is the outcome of the save;
\* rm names the rmtree that raises ("snapshot", "backups") or "ok".
remove_node(name, io, rm) ==
    /\ name \in DOMAIN nodes_config
    /\ nodes_config' = DelNode(nodes_config, name)
    /\ nodes_file' = SaveNodes(nodes_file, nodes_config', io)
    /\ LET d == node_dirs[name]
           snap == IF io # "ok" THEN d.snapshot ELSE Rmtree(d.snapshot, rm = "snapshot")
           bak == IF io # "ok" \/ snap = "partial" THEN d.backups
                  ELSE Rmtree(d.backups, rm = "backups")
       IN /\ node_dirs' = [node_dirs EXCEPT ![name] = [snapshot |-> snap, backups |-> bak]]
          /\ reg_last' = [op |-> "remove_node", name |-> name,
                           ok |-> io = "ok" /\ snap # "partial" /\ bak # "partial",
                           before |-> RegState]
    /\ UNCHANGED <<fsvars, clvars, epvars, pmvars>>

\* remove_node(name) for a name the registry does not hold
remove_unknown_node(name) ==
    /\ name \notin DOMAIN nodes_config
    /\ reg_last' = [op |-> "remove_node", name |-> name, ok |-> FALSE, before |-> RegState]
    /\ UNCHANGED <<nodes_config, nodes_file, node_dirs, fsvars, clvars, epvars, pmvars>>

\* fetch_node_config and create_backup make a registered node's
\* directories
MakeDirs(name, which) ==
    /\ name \in DOMAIN nodes_config
    /\ node_dirs' = [node_dirs EXCEPT ![name][which] = "full"]
    /\ reg_last' = NoRegCall
    /\ UNCHANGED <<nodes_config, nodes_file, fsvars, clvars, epvars, pmvars>>

\* the registry the other behaviours leave alone: as loaded at startup from
\* a file with no node
InitRegistryIdle ==
    /\ nodes_config = NoNodes
    /\ nodes_file = NodesFile(NoNodes)
    /\ node_dirs = [n \in RegNames |-> [snapshot |-> "none", backups |-> "none"]]
    /\ reg_last = NoRegCall

\* ------------------------------------------------------------------------
\* Configuration trees read by the EPS engine and by submodule discovery
\* ------------------------------------------------------------------------
\* conf_d maps each module directory to its conf.yml and its <name>.yml
\* siblings.  M and N are module directories; Z is a name with no directory.
Modules == {"M", "N"}

ModuleArgs == Modules \cup {"Z"}

\* the names a module directory may hold, in sorted order
SubOrder == <<"s1", "s2", "s3">>

SubNames == Range(SubOrder)

\* A file of a module directory: kind "none" (no such file), "bad" (the
\* file does not load as YAML) or "yaml"; uk tells what the document holds
\* under uniquekey: "none" (no such key), "empty" (a mapping without
\* NumUniqKey) or "key" (a mapping whose NumUniqKey is key).
NoEntry == [kind |-> "none", uk |-> "none", key |-> 0]

BadYaml == [kind |-> "bad", uk |-> "none", key |-> 0]

SubYaml(uk, k) == [kind |-> "yaml", uk |-> uk, key |-> k]

NoInclude == [form |-> "none", names |-> <<>>]

\* a conf.yml that loads: uniquekey, period (has_period tells whether the
\* key is there) and Include_sub_modules (a string or a list)
ModuleYaml(uk, k, has_period, period, include) ==
    [kind |-> "yaml", uk |-> uk, key |-> k, has_period |-> has_period, period |-> period,
     include |-> include]

NoConf == [ModuleYaml("none", 0, FALSE, <<>>, NoInclude) EXCEPT !.kind = "none"]

BadConf == [ModuleYaml("none", 0, FALSE, <<>>, NoInclude) EXCEPT !.kind = "bad"]

ModuleDirOf(conf, subs) == [conf |-> conf, subs |-> subs]

DEFAULT_UNIQUE_KEY == 1

\* ------------------------------------------------------------------------
\* _parse_duration, in milliseconds
\* ------------------------------------------------------------------------
DigitValue(c) ==
    CASE c = "0" -> 0 [] c = "1" -> 1 [] c = "2" -> 2 [] c = "3" -> 3 [] c = "4" -> 4
      [] c = "5" -> 5 [] c = "6" -> 6 [] c = "7" -> 7 [] c = "8" -> 8 [] c = "9" -> 9

\* int(value) of a string of digits
RECURSIVE DecimalValue(_)
DecimalValue(s) ==
    IF s = <<>> THEN 0
    ELSE 10 * DecimalValue(SubSeq(s, 1, Len(s) - 1)) + DigitValue(s[Len(s)])

\* multipliers[unit], times 1000
UnitMs(u) ==
    CASE u = <<"m", "s">> -> 1
      [] u = <<"s">> -> 1000
      [] u = <<"m">> -> 60000
      [] u = <<"h">> -> 3600000

\* the number of leading digits of s
RECURSIVE DigitRun(_)
DigitRun(s) == IF s # <<>> /\ Head(s) \in Digits THEN 1 + DigitRun(Tail(s)) ELSE 0

\* value * multipliers[unit] for a string parse_duration_ok accepts; the
\* empty string gives 1.0
parse_duration_ms(s) ==
    IF s = <<>> THEN 1000
    ELSE LET t == Strip(s)
             k == DigitRun(t)
         IN DecimalValue(SubSeq(t, 1, k)) * UnitMs(SubSeq(t, k + 1, Len(t)))

\* ------------------------------------------------------------------------
\* EPSCalculator
\* ------------------------------------------------------------------------
\* module_dir.exists()
HasDir(tree, m) == m \in DOMAIN tree

\* get_submodules(module_name): sorted stems of the *.yml files other than
\* conf.yml
get_submodules(tree, m) ==
    IF ~HasDir(tree, m) THEN <<>>
    ELSE SelectSeq(SubOrder, LAMBDA s : tree[m].subs[s].kind # "none")

\* yaml_editor.read_module_config / read_submodule_config raise unless the
\* file exists and loads
Readable(file) == file.kind = "yaml"

ModuleConfOf(tree, m) == IF HasDir(tree, m) THEN tree[m].conf ELSE NoConf

\* get_module_config(module_name): the except branch returns the defaults
\* with an "error" entry; the period is parsed inside the try
get_module_config(tree, m) ==
    LET data == ModuleConfOf(tree, m)
        period == IF data.has_period THEN data.period ELSE <<"1", "s">>
    IN IF ~Readable(data) \/ ~parse_duration_ok(period)
       THEN [uniquekey |-> DEFAULT_UNIQUE_KEY, period |-> <<"1", "s">>, period_ms |-> 1000,
             error |-> TRUE]
       ELSE [uniquekey |-> IF data.uk = "key" THEN data.key ELSE DEFAULT_UNIQUE_KEY,
             period |-> period, period_ms |-> parse_duration_ms(period), error |-> FALSE]

\* get_submodule_config(module_name, submodule_name)
get_submodule_config(tree, m, s) ==
    LET data == tree[m].subs[s]
    IN IF ~Readable(data) THEN [uniquekey |-> DEFAULT_UNIQUE_KEY, error |-> TRUE]
       ELSE [uniquekey |-> IF data.uk = "key" THEN data.key ELSE DEFAULT_UNIQUE_KEY,
             error |-> FALSE]

NoOverrides == [s \in {} |-> 0]

\* an optional argument left out
None == [given |-> FALSE, value |-> 0, text |-> <<>>]

SomeInt(n) == [given |-> TRUE, value |-> n, text |-> <<>>]

SomeText(t) == [given |-> TRUE, value |-> 0, text |-> t]

\* if uniquekey < 1: uniquekey = DEFAULT_UNIQUE_KEY
AtLeastOne(k) == IF k < 1 THEN DEFAULT_UNIQUE_KEY ELSE k

\* the contribution of one submodule in calculate_eps; overrides maps some
\* submodule names to unique keys
Contribution(tree, m, s, overrides) ==
    AtLeastOne(IF s \in DOMAIN overrides THEN overrides[s]
               ELSE get_submodule_config(tree, m, s).uniquekey)

\* if period_seconds <= 0: period_seconds = 1.0
GuardedPeriod(ms) == IF ms <= 0 THEN 1000 ELSE ms

\* calculate_eps(module_name, module_uniquekey, module_period,
\* submodule_overrides).  eps is the fraction eps_num / eps_den.
\* read_failed: the module's or a submodule's configuration could not be
\* read.
calculate_eps(tree, m, module_uniquekey, module_period, overrides) ==
    LET cfg == get_module_config(tree, m)
        subs == get_submodules(tree, m)
        key == IF module_uniquekey.given THEN module_uniquekey.value ELSE cfg.uniquekey
        total == SeqSum([i \in DOMAIN subs |-> Contribution(tree, m, subs[i], overrides)])
    IN IF module_period.given /\ ~parse_duration_ok(module_period.text)
       THEN [status |-> "ValueError", module_uniquekey |-> 0, period_ms |-> 0,
             total_submodule_contribution |-> 0, eps_num |-> 0, eps_den |-> 1,
             read_failed |-> FALSE]
       ELSE LET ms == GuardedPeriod(IF module_period.given
                                    THEN parse_duration_ms(module_period.text)
                                    ELSE cfg.period_ms)
            IN [status |-> "ok", module_uniquekey |-> key, period_ms |-> ms,
                total_submodule_contribution |-> total,
                eps_num |-> key * total * 1000, eps_den |-> ms,
                read_failed |-> cfg.error
                                \/ \E i \in DOMAIN subs :
                                      get_submodule_config(tree, m, subs[i]).error]

\* round(num / den) for a fraction that is not negative: to the nearest
\* integer, a tie going to the even one
Round(num, den) ==
    LET q == num \div den
        r == num % den
    IN IF 2 * r < den THEN q
       ELSE IF 2 * r > den THEN q + 1
       ELSE IF q % 2 = 0 THEN q ELSE q + 1

Max(a, b) == IF a >= b THEN a ELSE b

Abs(a) == IF a >= 0 THEN a ELSE 0 - a

\* suggest_uniquekey_for_target_eps(module_name, target_eps, period,
\* tolerance): tolerance is the fraction tolerance[1] / tolerance[2], and
\* expected_eps the fraction expected_num / expected_den.  With
\* period_seconds = 0 the division that computes expected_eps raises
\* ZeroDivisionError.
suggest_uniquekey_for_target_eps(tree, m, target_eps, period, tolerance) ==
    LET cfg == get_module_config(tree, m)
        subs == get_submodules(tree, m)
        text == IF period.given THEN period.text ELSE cfg.period
        total == SeqSum([i \in DOMAIN subs |-> Contribution(tree, m, subs[i], NoOverrides)])
        failed(status) ==
            [status |-> status, suggested_module_uniquekey |-> 0, period_ms |-> 0,
             total_submodule_contribution |-> total, expected_num |-> 0, expected_den |-> 1,
             within_tolerance |-> FALSE,
             read_failed |-> FALSE]
    IN IF ~parse_duration_ok(text) THEN failed("ValueError")
       ELSE IF total <= 0 THEN failed("NoUsableSubmodules")
       ELSE LET ms == parse_duration_ms(text)
                suggested == Max(1, Round(target_eps * ms, 1000 * total))
            IN IF ms = 0 THEN failed("ZeroDivisionError")
               ELSE [status |-> "ok", suggested_module_uniquekey |-> suggested,
                     period_ms |-> ms, total_submodule_contribution |-> total,
                     expected_num |-> suggested * total * 1000, expected_den |-> ms,
                     within_tolerance |->
                         IF target_eps > 0
                         THEN Abs(suggested * total * 1000 - target_eps * ms) * tolerance[2]
                                 <= tolerance[1] * target_eps * ms
                         ELSE TRUE,
                     read_failed |-> cfg.error
                                     \/ \E i \in DOMAIN subs :
                                           get_submodule_config(tree, m, subs[i]).error]

\* ------------------------------------------------------------------------
\* ClusterManager: submodule discovery and the EPS roll-up
\* ------------------------------------------------------------------------
\* the file <module_dir>/<name>.yml; a name the directory cannot hold has
\* no file
FileOf(tree, m, s) == IF s \in SubNames THEN tree[m].subs[s] ELSE NoEntry

\* _has_unique_key_config(config_data)
has_unique_key_config(data) == data.kind = "yaml" /\ data.uk = "key"

\* _process_submodule_file adds an entry unless reading the file raises;
\* the exception is logged and nothing is added
Processed(tree, m, s) == FileOf(tree, m, s).kind = "yaml"

\* included_submodules of a conf.yml that loaded: the value of
\* Include_sub_modules, a string made a one-element list, [] when absent
IncludedSubmodules(conf) ==
    IF conf.include.form = "none" THEN <<>> ELSE conf.include.names

\* the submodule names get_all_submodule_configs processes in one module
\* directory: none unless conf.yml exists and loads
DiscoveredIn(tree, m) ==
    IF tree[m].conf.kind # "yaml" THEN {}
    ELSE LET inc == Range(IncludedSubmodules(tree[m].conf))
         IN {s \in SubNames \cup inc :
                /\ s \in inc \/ "*" \in inc
                /\ s # "*"
                /\ Processed(tree, m, s)}

\* get_all_submodule_configs(node_name): the map keyed module/submodule
get_all_submodule_configs(tree) ==
    LET keys == UNION {{<<m, s>> : s \in DiscoveredIn(tree, m)} : m \in DOMAIN tree}
    IN [k \in keys |->
           [module_name |-> k[1], submodule_name |-> k[2],
            has_unique_key_config |-> has_unique_key_config(FileOf(tree, k[1], k[2])),
            NumUniqKey |-> FileOf(tree, k[1], k[2]).key]]

\* the filter of the module-level and the pattern-based bulk edits
Eligible(entry) == entry.has_unique_key_config

\* bulk_edit_module_unique_keys: module_submodules, the paths that are
\* given new_unique_key_value
module_submodules(tree, m) ==
    LET configs == get_all_submodule_configs(tree)
    IN {k \in DOMAIN configs : configs[k].module_name = m /\ Eligible(configs[k])}

\* render_pattern_submodule_editor: the paths of matching_submodules for
\* the pattern "By Submodule Name" (names) or "All Submodules"
matching_submodules(tree, pattern) ==
    LET configs == get_all_submodule_configs(tree)
    IN {k \in DOMAIN configs :
           /\ Eligible(configs[k])
           /\ pattern.type = "name" => configs[k].submodule_name \in pattern.names}

\* _get_module_level_unique_key(module_name, node_name): 1 when conf.yml
\* is missing, does not load or holds no uniquekey.NumUniqKey
get_module_level_unique_key(tree, m) ==
    LET conf == ModuleConfOf(tree, m)
    IN IF conf.kind = "yaml" /\ conf.uk = "key" THEN conf.key ELSE 1

\* the dict the loop of get_module_eps_calculation has built after the
\* first i names, and the total_eps it has added up; EPS values are in
\* units of 1 / period
RECURSIVE EpsLoop(_, _, _, _)
EpsLoop(acc, tree, names, i) ==
    IF i > Len(names) THEN acc
    ELSE LET m == names[i]
             key == get_module_level_unique_key(tree, m)
             subs == module_submodules(tree, m)
             sum == SeqSum([j \in DOMAIN SubOrder |->
                               IF <<m, SubOrder[j]>> \in subs
                               THEN FileOf(tree, m, SubOrder[j]).key ELSE 0])
             eps == IF acc.period > 0 THEN key * sum ELSE 0
         IN EpsLoop([acc EXCEPT !.modules = SetResult(acc.modules, m,
                                     [module_level_unique_key |-> key,
                                      submodule_unique_keys_sum |-> sum,
                                      calculated_eps |-> eps]),
                                !.total_eps = acc.total_eps + eps],
                    tree, names, i + 1)

\* get_module_eps_calculation(module_names, None, period)
get_module_eps_calculation(tree, names, period) ==
    EpsLoop([modules |-> [m \in {} |-> 0], total_eps |-> 0, period |-> period],
            tree, names, 1)

\* ------------------------------------------------------------------------
\* Calls of the EPS engine and of the discovery functions
\* ------------------------------------------------------------------------
Star == [form |-> "str", names |-> <<"*">>]

IncludeList(names) == [form |-> "list", names |-> names]

\* the conf.yml files of module M that the calculations are checked on
ModuleConfs ==
    {NoConf, BadConf}
    \cup {ModuleYaml(k.uk, k.key, p.has, p.text, inc) :
             k \in {[uk |-> "none", key |-> 0], [uk |-> "key", key |-> 5]},
             p \in {[has |-> FALSE, text |-> <<>>], [has |-> TRUE, text |-> <<"1", "s">>],
                    [has |-> TRUE, text |-> <<"1", "0", "s">>],
                    [has |-> TRUE, text |-> <<"0", "s">>],
                    [has |-> TRUE, text |-> <<"1", ".", "5", "s">>]},
             inc \in {Star, IncludeList(<<"s1", "s3">>), IncludeList(<<"s2", "*">>),
                      NoInclude}}

\* its submodule files
ModuleSubs ==
    {[s \in SubNames |-> IF s = "s1" THEN a ELSE IF s = "s2" THEN b ELSE c] :
        a \in {NoEntry, BadYaml, SubYaml("none", 0), SubYaml("key", 10)},
        b \in {SubYaml("empty", 0), SubYaml("key", 0), SubYaml("key", 20)},
        c \in {NoEntry, SubYaml("key", 30)}}

\* module N: key 2, every file included, one submodule of key 10
OtherModule ==
    ModuleDirOf(ModuleYaml("key", 2, FALSE, <<>>, Star),
                [s \in SubNames |-> IF s = "s1" THEN SubYaml("key", 10) ELSE NoEntry])

Trees ==
    {[m \in Modules |-> IF m = "M" THEN ModuleDirOf(conf, subs) ELSE OtherModule] :
        conf \in ModuleConfs, subs \in ModuleSubs}

NoOut == [op |-> "none"]

\* the tree the file store and cluster behaviours leave alone
InitEPSIdle ==
    /\ conf_d = [m \in Modules |-> OtherModule]
    /\ out = NoOut

InitEPS ==
    /\ InitFS
    /\ InitCluster
    /\ InitRegistryIdle
    /\ InitProcessIdle
    /\ conf_d \in Trees
    /\ out = NoOut

\* a call is made on a tree once
Answer(r) ==
    /\ out = NoOut
    /\ out' = r
    /\ UNCHANGED <<conf_d, fsvars, clvars, rgvars, pmvars>>

Calculate(m, module_uniquekey, module_period, overrides) ==
    Answer([op |-> "calculate", module |-> m, module_uniquekey |-> module_uniquekey,
            module_period |-> module_period, overrides |-> overrides,
            r |-> calculate_eps(conf_d, m, module_uniquekey, module_period, overrides)])

Suggest(m, target_eps, period, tolerance) ==
    Answer([op |-> "suggest", module |-> m, target_eps |-> target_eps, period |-> period,
            tolerance |-> tolerance,
            r |-> suggest_uniquekey_for_target_eps(conf_d, m, target_eps, period, tolerance)])

Enumerate ==
    Answer([op |-> "enumerate", r |-> get_all_submodule_configs(conf_d)])

ModuleUpdateMap(m) ==
    Answer([op |-> "module_edit", module |-> m, r |-> module_submodules(conf_d, m)])

PatternUpdateMap(pattern) ==
    Answer([op |-> "pattern_edit", pattern |-> pattern,
            r |-> matching_submodules(conf_d, pattern)])

RollUp(names, period) ==
    Answer([op |-> "eps_for_modules", names |-> names,
            r |-> get_module_eps_calculation(conf_d, names, period)])

OverrideArgs == {NoOverrides, [s \in {"s2"} |-> 7]}

PatternArgs == {[type |-> "all", names |-> {}], [type |-> "name", names |-> {"s1"}]}

ModuleLists == {<<"M">>, <<"M", "N">>, <<"M", "M">>, <<"N", "Z", "N">>}

NextEPS ==
    \/ \E m \in ModuleArgs, k \in {None, SomeInt(2)},
          p \in {None, SomeText(<<"1", "0", "s">>), SomeText(<<"1", ".", "5", "s">>)},
          o \in OverrideArgs : Calculate(m, k, p, o)
    \/ \E m \in ModuleArgs, t \in {300, 7},
          p \in {None, SomeText(<<"1", "s">>), SomeText(<<"0", "s">>),
                 SomeText(<<"2", "5", "0", "m", "s">>)} : Suggest(m, t, p, <<5, 100>>)
    \/ Enumerate
    \/ \E m \in ModuleArgs : ModuleUpdateMap(m)
    \/ \E pattern \in PatternArgs : PatternUpdateMap(pattern)
    \/ \E names \in ModuleLists, period \in {1, 10, 0} : RollUp(names, period)

SpecEPS == InitEPS /\ [][NextEPS]_vars

\* ------------------------------------------------------------------------
\* The engine and the roll-up asked about the same module and period
\* ------------------------------------------------------------------------
\* the periods asked for, as the engine takes them; the roll-up takes the
\* same period as a number of seconds
WholeSecondPeriods == {<<"1", "s">>, <<"1", "0", "s">>, <<"0", "s">>}

\* EPSCalculator.calculate_eps(module, module_period = text) and
\* ClusterManager.get_module_eps_calculation([module], period = seconds)
\* on the same tree
Compare(m, text) ==
    LET seconds == parse_duration_ms(text) \div 1000
    IN Answer([op |-> "compare", module |-> m, period |-> seconds,
               engine |-> calculate_eps(conf_d, m, None, SomeText(text), NoOverrides),
               rollup |-> get_module_eps_calculation(conf_d, <<m>>, seconds)])

NextCompare == \E m \in ModuleArgs, text \in WholeSecondPeriods : Compare(m, text)

SpecCompare == InitEPS /\ [][NextCompare]_vars

\* ------------------------------------------------------------------------
\* Registry behaviours
\* ------------------------------------------------------------------------
InitRegistry == InitFS /\ InitCluster /\ InitEPSIdle /\ InitRegistryIdle /\ InitProcessIdle

IoOutcomes == {"ok", "open", "dump"}

NextRegistry ==
    \/ \E name \in RegNames, def \in NodeDefs, io \in IoOutcomes : add_node(name, def, io)
    \/ \E name \in RegNames, io \in IoOutcomes, rm \in {"ok", "snapshot", "backups"} :
          remove_node(name, io, rm)
    \/ \E name \in RegNames : remove_unknown_node(name)
    \/ \E name \in RegNames, which \in {"snapshot", "backups"} : MakeDirs(name, which)

SpecRegistry == InitRegistry /\ [][NextRegistry]_vars

\* ------------------------------------------------------------------------
\* Process manager behaviours
\* ------------------------------------------------------------------------
InitProcess ==
    /\ InitFS /\ InitCluster /\ InitEPSIdle /\ InitRegistryIdle
    /\ build \in Builds
    /\ processes = NotManaged
    /\ alive = FALSE
    /\ clock = 0
    /\ pm_last = NoProcessCall

NextProcess ==
    \/ \E timeout \in Timeouts : start_binary(timeout) /\ UNCHANGED <<fsvars, clvars, epvars, rgvars>>
    \/ \E stops \in BOOLEAN : stop_binary(stops) /\ UNCHANGED <<fsvars, clvars, epvars, rgvars>>
    \/ \E stops \in BOOLEAN : get_status(stops) /\ UNCHANGED <<fsvars, clvars, epvars, rgvars>>
    \/ cleanup_finished_processes /\ UNCHANGED <<fsvars, clvars, epvars, rgvars>>
    \/ ProcessExits /\ UNCHANGED <<fsvars, clvars, epvars, rgvars>>
    \/ Tick /\ UNCHANGED <<fsvars, clvars, epvars, rgvars>>

SpecProcess == InitProcess /\ [][NextProcess]_vars

\* ------------------------------------------------------------------------
\* Specifications
\* ------------------------------------------------------------------------
Init == InitFS /\ InitCluster /\ InitEPSIdle /\ InitRegistryIdle /\ InitProcessIdle

Next == NextFS

Spec == Init /\ [][Next]_vars

\* ------------------------------------------------------------------------
\* _parse_duration and _format_duration on their own
\* ------------------------------------------------------------------------
\* the characters duration strings are made of here
Alphabet == {"0", "1", "2", "5", "m", "s", "h", "-", ".", " "}

RECURSIVE StringsUpTo(_)
StringsUpTo(n) ==
    IF n = 0 THEN {<<>>}
    ELSE LET shorter == StringsUpTo(n - 1)
         IN shorter \cup {Append(t, c) : t \in {x \in shorter : Len(x) = n - 1}, c \in Alphabet}

\* longer strings of the shapes the parser is documented with
LongerStrings ==
    {<<"2", "5", "0", "m", "s">>, <<"1", "h", "3", "0", "m">>, <<"1", "0", "s", "e", "c">>,
     <<" ", "2", "5", "0", "m", "s", " ">>, <<"1", "2", "0", "0", "0", "s">>}

DurationStrings == StringsUpTo(MaxLen) \cup LongerStrings

\* str(n) for n >= 0
RECURSIVE ToDigits(_)
ToDigits(n) ==
    LET d == CASE n % 10 = 0 -> "0" [] n % 10 = 1 -> "1" [] n % 10 = 2 -> "2"
               [] n % 10 = 3 -> "3" [] n % 10 = 4 -> "4" [] n % 10 = 5 -> "5"
               [] n % 10 = 6 -> "6" [] n % 10 = 7 -> "7" [] n % 10 = 8 -> "8"
               [] n % 10 = 9 -> "9"
    IN IF n < 10 THEN <<d>> ELSE Append(ToDigits(n \div 10), d)

\* seconds // unit, then int()
WholeUnits_RoundedUp(seconds, unit) == (seconds + unit - 1) \div unit

WholeUnits(seconds, unit) == seconds \div unit

\* _format_duration(seconds) for a whole number of seconds
format_duration(seconds) ==
    IF seconds < 1 THEN ToDigits(seconds * 1000) \o <<"m", "s">>
    ELSE IF seconds < 60 THEN ToDigits(seconds) \o <<"s">>
    ELSE IF seconds < 3600 THEN ToDigits(WholeUnits(seconds, 60)) \o <<"m">>
    ELSE ToDigits(WholeUnits(seconds, 3600)) \o <<"h">>

\* _parse_duration(duration_str): the seconds, in milliseconds, or
\* ValueError
parse_duration(s) ==
    IF parse_duration_ok(s) THEN [status |-> "ok", ms |-> parse_duration_ms(s)]
    ELSE [status |-> "ValueError", ms |-> 0]

ParseDuration(s) == Answer([op |-> "parse", text |-> s, r |-> parse_duration(s)])

FormatParse(x) ==
    Answer([op |-> "format", seconds |-> x, text |-> format_duration(x),
            r |-> parse_duration(format_duration(x))])

NextDuration ==
    \/ \E s \in DurationStrings : ParseDuration(s)
    \/ \E x \in 0..MaxSeconds : FormatParse(x)

SpecDuration == Init /\ [][NextDuration]_vars

\* ------------------------------------------------------------------------
\* The NumUniqKey values the edit paths write
\* ------------------------------------------------------------------------
Min(a, b) == IF a <= b THEN a ELSE b

\* current_num_uniq_key of the summary: the value a submodule file holds
CurrentKeys == {0, 1, 5, 100, 999, 1000, 20000, MAX_UNIQUE_KEY}

\* st.number_input("Multiplication factor:", min_value=0.1, ...): factors
\* that binary floating point holds exactly, as num / den
Factors == {[num |-> 1, den |-> 4], [num |-> 1, den |-> 2], [num |-> 2, den |-> 1]}

\* st.number_input("Value to add (negative to subtract):", value=0, step=100)
Adjustments == {-100, -1, 0, 1, 100}

\* st.number_input("Minimum value:", min_value=0, ...)
MinValues == {0, 1000, MAX_UNIQUE_KEY + 1}

\* st.number_input("Maximum value:", min_value=1, ...)
MaxValues == {1, 10000}

\* st.number_input("New NumUniqKey value:", min_value=0, value=1000, step=100)
PatternValues == {0, 1000, MAX_UNIQUE_KEY + 1}

Operations ==
    {[operation |-> "Multiply by factor", factor |-> f, n |-> 0] : f \in Factors}
    \cup {[operation |-> "Add/Subtract value", factor |-> [num |-> 1, den |-> 1], n |-> a] :
              a \in Adjustments}
    \cup {[operation |-> "Set minimum value", factor |-> [num |-> 1, den |-> 1], n |-> v] :
              v \in MinValues}
    \cup {[operation |-> "Set maximum value", factor |-> [num |-> 1, den |-> 1], n |-> v] :
              v \in MaxValues}

\* new_value of render_bulk_operations_editor for one submodule
bulk_operation_value(o, current_value) ==
    IF o.operation = "Multiply by factor"
    THEN Max(1, (current_value * o.factor.num) \div o.factor.den)
    ELSE IF o.operation = "Add/Subtract value" THEN Max(0, current_value + o.n)
    ELSE IF o.operation = "Set minimum value" THEN Max(current_value, o.n)
    ELSE Min(current_value, o.n)

\* config_data['uniquekey']['NumUniqKey'] = new_value in
\* bulk_edit_submodule_unique_keys: the value of the map is stored as it is
bulk_written_value(new_value) == new_value

\* update_module_uniquekey / update_submodule_uniquekey called with a
WriteByMutator(a) ==
    Answer([op |-> "write_key", path |-> "mutator", written |-> ~UniqueKeyRejected(a),
            value |-> a])

\* bulk edit (one node or all nodes) called with a map whose value is a
WriteByBulkEdit(a) ==
    Answer([op |-> "write_key", path |-> "bulk_edit", written |-> TRUE,
            value |-> bulk_written_value(a)])

\* "Apply Pattern Changes": updates = {path: new_value}
WriteByPattern(v) ==
    Answer([op |-> "write_key", path |-> "pattern", written |-> TRUE,
            value |-> bulk_written_value(IntArg(v))])

\* "Apply Bulk Changes": if new_value != current_value:
\* updates[path] = new_value
WriteByOperation(o, current_value) ==
    LET new_value == bulk_operation_value(o, current_value)
    IN Answer([op |-> "write_key", path |-> o.operation, written |-> new_value # current_value,
               value |-> bulk_written_value(IntArg(new_value)),
               operation |-> o, current_value |-> current_value])

NextWrites ==
    \/ \E a \in UniqueKeyArgs : WriteByMutator(a)
    \/ \E a \in UniqueKeyArgs : WriteByBulkEdit(a)
    \/ \E v \in PatternValues : WriteByPattern(v)
    \/ \E o \in Operations, current_value \in CurrentKeys : WriteByOperation(o, current_value)

SpecWrites == Init /\ [][NextWrites]_vars

NextSync ==
    \/ \E n \in Known, f \in TreeFiles : RemoteRemove(n, f)
    \/ \E n \in Known : FetchNode(n)
    \/ \E n \in NodeArgs : FetchUnknownNode(n)
    \/ FetchAll
    \/ \E n \in Known, backup \in BOOLEAN : PushAll(n, backup)

SpecSync == Init /\ [][NextSync]_vars

NextBulk ==
    \/ \E n \in NodeArgs, updates \in UpdateMaps, backup \in BOOLEAN :
          BulkEditUnknownNode(n, updates, backup)
    \/ \E n \in Known, updates \in UpdateMaps, backup \in BOOLEAN : BulkEdit(n, updates, backup)
    \/ \E updates \in UpdateMaps, target \in TargetArgs, backup \in BOOLEAN :
          BulkEditAll(updates, target, backup)

SpecBulk == Init /\ [][NextBulk]_vars

\* Every node has a snapshot from an earlier fetch, taken while all nodes
\* were enabled and their files held NewKey; node C was disabled since.
EarlierSnapshot ==
    fetch_node_config([n \in Known |-> TRUE], NoSnapshot,
                      [f \in TreeFiles |-> Yaml(NewKey)], "C", NoFaults(TreeFiles)).snap

InitNodes ==
    /\ InitFS
    /\ registry = [n \in Known |-> n # "C"]
    /\ remote = [n \in Known |-> [f \in TreeFiles |-> Yaml(InitialKey)]]
    /\ snapshot = [n \in Known |-> EarlierSnapshot]
    /\ ret = NoRet
    /\ ncalls = 0
    /\ tfaults = 0
    /\ InitEPSIdle
    /\ InitRegistryIdle
    /\ InitProcessIdle

NextNodes ==
    \/ \E n \in Known : FetchNode(n)
    \/ FetchAll
    \/ \E n \in Known, backup \in BOOLEAN : PushAll(n, backup)
    \/ \E n \in NodeArgs, f \in TreeFiles, backup \in BOOLEAN : PushFile(n, f, backup)
    \/ \E n \in NodeArgs : Restart(n)
    \/ \E target \in TargetArgs, backup \in BOOLEAN : PushAllNodes(target, backup)
    \/ \E n \in Known, updates \in UpdateMaps, backup \in BOOLEAN : BulkEdit(n, updates, backup)
    \/ \E updates \in UpdateMaps, target \in TargetArgs, backup \in BOOLEAN :
          BulkEditAll(updates, target, backup)

SpecNodes == InitNodes /\ [][NextNodes]_vars

\* ------------------------------------------------------------------------
\* Views of a snapshot and the module-level bulk edit
\* ------------------------------------------------------------------------
SubmoduleOrder == <<<<"M", "s1">>, <<"M", "s2">>>>

\* get_all_submodule_configs(node_name) on a snapshot directory: the
\* submodule files it holds, with what each shows; nothing is written
snapshot_submodules(snap) ==
    [f \in {g \in Range(SubmoduleOrder) : snap.exists /\ snap.files[g] # NoFile} |-> snap.files[f]]

\* the discovery that fetches the node before it reads
Discover_Refreshing(n) ==
    /\ MayCall
    /\ snapshot' = [snapshot EXCEPT ![n] =
                       fetch_node_config(registry, snapshot[n], remote[n], n,
                                         NoFaults(TreeFiles)).snap]
    /\ Return([op |-> "discover", node |-> n, view |-> snapshot_submodules(snapshot[n])], 0)
    /\ UNCHANGED <<registry, remote, fsvars, epvars, rgvars, pmvars>>

\* get_all_submodule_configs(node_name) / get_submodule_unique_key_summary
Discover(n) ==
    /\ MayCall
    /\ Return([op |-> "discover", node |-> n, view |-> snapshot_submodules(snapshot[n])], 0)
    /\ UNCHANGED <<registry, remote, snapshot, fsvars, epvars, rgvars, pmvars>>

\* get_module_eps_calculation / get_all_modules_eps_summary with a
\* node_name: if node_name: self.fetch_node_config(node_name), the result
\* only logged, then the snapshot is read
EpsForNode(n) ==
    /\ MayCall
    /\ n \in Known
    /\ \E p \in FetchPlans(remote[n], MaxFaults - tfaults) :
       \E r \in {fetch_node_config(registry, snapshot[n], remote[n], n, p)} :
          /\ snapshot' = [snapshot EXCEPT ![n] = r.snap]
          /\ Return([op |-> "eps_for_modules", node |-> n, fetched |-> r.ok,
                     contacted |-> IF r.tried THEN {n} ELSE {},
                     view |-> snapshot_submodules(r.snap)],
                    FetchFaults(p))
    /\ UNCHANGED <<registry, remote, fsvars, epvars, rgvars, pmvars>>

\* the same queries without a node_name: the first snapshot directory is
\* read and nothing is fetched
EpsLocal ==
    /\ MayCall
    /\ Return([op |-> "eps_for_modules", node |-> "none", fetched |-> FALSE, contacted |-> {},
               view |-> snapshot_submodules(snapshot[NodeOrder[1]])], 0)
    /\ UNCHANGED <<registry, remote, snapshot, fsvars, epvars, rgvars, pmvars>>

\* module_submodules of bulk_edit_module_unique_keys: the submodules of the
\* module the snapshot shows with a unique key, each mapped to the new value
ModuleUpdates(snap) ==
    SelectSeq(SubmoduleOrder,
              LAMBDA f : f \in DOMAIN snapshot_submodules(snap)
                         /\ snapshot_submodules(snap)[f].kind = "yaml")

\* bulk_edit_module_unique_keys(node_name, module_name, new_value,
\* create_backup): {} when the snapshot shows no such submodule, otherwise
\* bulk_edit_submodule_unique_keys with the map built from the snapshot
BulkEditModule(n, backup) ==
    /\ MayCall
    /\ n \in Known
    /\ LET updates == ModuleUpdates(snapshot[n])
       IN IF updates = <<>>
          THEN /\ Return([op |-> "module_edit", node |-> n, updates |-> updates,
                          result |-> AllFalse(updates), contacted |-> {}], 0)
               /\ UNCHANGED remote
          ELSE \E p \in BulkPlans(updates, MaxFaults - tfaults) :
               \E r \in {bulk_edit_submodule_unique_keys(registry, remote[n], n, updates,
                                                         backup, p)} :
                  /\ remote' = [remote EXCEPT ![n] = r.tree]
                  /\ Return([op |-> "module_edit", node |-> n, updates |-> updates,
                             result |-> r.results,
                             contacted |-> IF r.tried THEN {n} ELSE {}],
                            BulkFaults(p))
    /\ UNCHANGED <<registry, snapshot, fsvars, epvars, rgvars, pmvars>>

NextViews ==
    \/ \E n \in Known : FetchNode(n)
    \/ \E n \in Known, backup \in BOOLEAN : PushAll(n, backup)
    \/ \E n \in NodeArgs : Restart(n)
    \/ \E n \in Known, updates \in UpdateMaps, backup \in BOOLEAN : BulkEdit(n, updates, backup)
    \/ \E updates \in UpdateMaps, target \in TargetArgs, backup \in BOOLEAN :
          BulkEditAll(updates, target, backup)
    \/ \E n \in Known, backup \in BOOLEAN : BulkEditModule(n, backup)
    \/ \E n \in Known : Discover(n)
    \/ \E n \in Known : EpsForNode(n)
    \/ EpsLocal

SpecViews == InitNodes /\ [][NextViews]_vars

\* ------------------------------------------------------------------------
\* Properties of the file store (Spec)
\* ------------------------------------------------------------------------
SomeCallFinished == last.who # 0

\* the call did nothing to the file system: no backup, no temporary file, no
\* replacement of the target
LeftNoTrace(c) == c.bpath = NoPath /\ ~c.tmpd /\ ~c.wrote

\* the argument is one the mutator's validation turns down: a unique key
\* that is not an integer in [1, MAX_UNIQUE_KEY], a malformed period
NotAnIntegerInRange(a) == a.kind # "int" \/ a.n \notin 1..MAX_UNIQUE_KEY

MalformedPeriod(p) == p \notin {<<>>, <<"2", "5", "0", "m", "s">>}

ArgumentRejected(c) ==
    \/ c.op \in {"update_module_uniquekey", "update_submodule_uniquekey"} /\ NotAnIntegerInRange(c.arg)
    \/ c.op = "update_module_period" /\ MalformedPeriod(c.arg.per)

\* C1 as stated: every write_*_config call and every mutator called with an
\* expected checksum that differs from the checksum on disk fails with
\* ConcurrentModification, having made no backup, written no temporary file
\* and left the target as it was.
C1_StaleAlwaysConcurrentModification ==
    (SomeCallFinished /\ last.call.stale) =>
        (last.call.status = "ConcurrentModification" /\ LeftNoTrace(last.call))

\* C1 amended: such a call fails having made no backup, written no temporary
\* file and left the target as it was; it fails with ConcurrentModification
\* unless the mutator's argument is itself invalid, in which case the
\* argument check, which runs before the file is read, fails it with
\* OutOfRange (unique key) or InvalidFormat (period).
C1_StaleFailsWithoutTrace ==
    (SomeCallFinished /\ (last.call.stale \/ last.call.mismatch)) =>
        /\ LeftNoTrace(last.call)
        /\ last.call.status =
              IF ~ArgumentRejected(last.call) THEN "ConcurrentModification"
              ELSE IF last.call.op = "update_module_period" THEN "InvalidFormat"
              ELSE "OutOfRange"

\* C1 witness: update_module_uniquekey, begun with a stale checksum and a
\* valid argument, has failed with ConcurrentModification.
C1_Witness ==
    /\ SomeCallFinished
    /\ last.call.stale
    /\ last.call.status = "ConcurrentModification"
    /\ last.call.op = "update_module_uniquekey"

\* C2 as stated: of two editors that read the same document and write it
\* with the checksum they read, at most one succeeds, and no successful
\* write replaces content other than the content whose checksum its writer
\* presented.
C2_NoLostUpdate ==
    /\ (SomeCallFinished /\ last.call.status = "ok") =>
            calculate_checksum(last.call.replaced) = last.call.orig
    /\ \A e1, e2 \in Editors :
            (/\ e1 # e2
             /\ ed[e1].spent /\ ed[e2].spent
             /\ OpDoc(ed[e1].op) = OpDoc(ed[e2].op)
             /\ ed[e1].orig = ed[e2].orig)
            => ~(ed[e1].status = "ok" /\ ed[e2].status = "ok")

C4_BackupIsWhatWasReplaced ==
    (SomeCallFinished /\ last.call.status = "ok") =>
        /\ last.call.steps = <<"check", "backup", "temp", "rename">>
        /\ last.call.bpath # NoPath
        /\ last.backup_after = last.call.replaced

\* C5: update_module_uniquekey and update_submodule_uniquekey fail with
\* OutOfRange exactly for the values that are not integers in
\* [1, MAX_UNIQUE_KEY], without touching file or backups; a call with 1 or
\* MAX_UNIQUE_KEY whose checksum is current at both checks and whose file
\* system calls do not fail succeeds and writes that value.
C5_UniqueKeyBounds ==
    (SomeCallFinished /\ last.call.op \in {"update_module_uniquekey", "update_submodule_uniquekey"}) =>
        /\ NotAnIntegerInRange(last.call.arg) =>
               (last.call.status = "OutOfRange" /\ LeftNoTrace(last.call))
        /\ last.call.status = "OutOfRange" => NotAnIntegerInRange(last.call.arg)
        /\ (/\ last.call.arg \in {IntArg(1), IntArg(MAX_UNIQUE_KEY)}
            /\ ~last.call.mismatch
            /\ ~last.call.failed_io)
           => (/\ last.call.status = "ok"
               /\ last.call.data.uk = "num"
               /\ last.call.data.num = last.call.arg.n)

\* C5 witness: update_submodule_uniquekey has succeeded with MAX_UNIQUE_KEY.
C5_Witness ==
    /\ SomeCallFinished
    /\ last.call.op = "update_submodule_uniquekey"
    /\ last.call.arg = IntArg(MAX_UNIQUE_KEY)
    /\ last.call.status = "ok"
    /\ files["submodule"].num = MAX_UNIQUE_KEY

\* ------------------------------------------------------------------------
\* Properties of the bulk edits (SpecBulk)
\* ------------------------------------------------------------------------
\* C6 as stated: a single-node bulk edit of a registered, enabled node the
\* connection to which is made, with or without create_backup, answers
\* False for exactly the items whose fetch, parse or push fails and True for
\* every other item, and runs the loop body for every item.
C6_ExactlyTheFailingItemsFalse ==
    (/\ ret.op = "bulk_edit"
     /\ ret.node \in Known
     /\ registry[ret.node]
     /\ ret.connected)
    => /\ \A u \in Range(ret.updates) : ret.result[u] = (u \notin ret.failing)
       /\ ret.attempted = Range(ret.updates)

\* C7: bulk_edit_all answers with one entry per target node (the enabled
\* nodes in registry order when no targets are given), each entry one
\* boolean per requested path; the loop takes the targets in order and
\* takes all of them; an unknown, disabled or unreachable node answers all
\* False; and every item answered True is in place on its node when the
\* call returns, whatever happened on the other nodes.
C7_OneEntryPerTargetInOrder ==
    ret.op = "bulk_edit_all" =>
        /\ ~ret.given => ret.targets = get_enabled_nodes(registry)
        /\ ret.visited = ret.targets
        /\ DOMAIN ret.result = Range(ret.targets)
        /\ \A n \in Range(ret.targets) :
              /\ DOMAIN ret.result[n] = Range(ret.updates)
              /\ \A u \in Range(ret.updates) : ret.result[n][u] \in BOOLEAN
              /\ (n \notin Known \/ n \in ret.down \/ ~registry[n])
                    => \A u \in Range(ret.updates) : ~ret.result[n][u]
              /\ \A u \in Range(ret.updates) :
                    ret.result[n][u] => (u \in TreeFiles /\ remote[n][u] = Yaml(NewKey))

\* C7 witness: with targets A, X, B and no backup, an item was edited on A,
\* X is unknown and B could not be reached: both answer all False and the
\* edit on A is in place.
C7_Witness ==
    /\ ret.op = "bulk_edit_all"
    /\ ret.targets = <<"A", "X", "B">>
    /\ ~ret.backup
    /\ "B" \in ret.down
    /\ ret.result["A"][<<"M", "s1">>]
    /\ remote["A"][<<"M", "s1">>] = Yaml(NewKey)
    /\ \A u \in Range(ret.updates) : ~ret.result["X"][u] /\ ~ret.result["B"][u]

\* ------------------------------------------------------------------------
\* Properties of fetch and push (SpecSync)
\* ------------------------------------------------------------------------
BatchOps == {"bulk_edit", "bulk_edit_all", "push_all", "fetch_all"}

\* the failed items the returned value names together with a cause: the
\* failed_files of push_all carry an error message, a map of booleans
\* carries none
ReportedWithCause(r) ==
    IF r.op = "push_all" THEN {x.file : x \in r.result.failed_files} ELSE {}

\* the returned value has a top-level outcome and it is success
ReportedAsSuccess(r) == r.op = "push_all" /\ r.result.success

\* C8 as stated: when an item or a node of a batch operation failed, the
\* returned value names every failed item with its cause and its top-level
\* outcome is not success.
C8_FailuresNamedWithCause ==
    (ret.op \in BatchOps /\ ret.failed # {}) =>
        /\ ret.failed \subseteq ReportedWithCause(ret)
        /\ ~ReportedAsSuccess(ret)

\* C9: after a fetch_node_config that returned True, the snapshot of the
\* node, files and manifest, holds no file that is absent from the node's
\* tree, whatever the snapshot held before.
C9_NoFileAbsentFromRemote ==
    (ret.op = "fetch_node" /\ ret.ok) =>
        \A f \in TreeFiles :
            remote[ret.node][f] = NoFile =>
                /\ snapshot[ret.node].files[f] = NoFile
                /\ snapshot[ret.node].checksums[f] = NoSum

\* C9 witness: a fetch returned True for a node whose previous snapshot held
\* a file that had since been removed from the node, and the file is gone
\* from the snapshot.
C9_Witness ==
    /\ ret.op = "fetch_node"
    /\ ret.ok
    /\ \E f \in TreeFiles :
          /\ ret.before[f] # NoFile
          /\ remote[ret.node][f] = NoFile
          /\ snapshot[ret.node].files[f] = NoFile

\* C10 as stated: after a fetch_node_config that returned True the snapshot
\* holds exactly the files and directories of the node's tree and the
\* manifest holds, for exactly the snapshot's files, the hash of the file;
\* and a fetch during which a listing or a download failed returns False.
C10_SnapshotMirrorsRemote ==
    ret.op = "fetch_node" =>
        /\ ret.ok =>
              /\ snapshot[ret.node].files = remote[ret.node]
              /\ snapshot[ret.node].dirs = {RootDir, ModuleDir}
              /\ snapshot[ret.node].manifest
              /\ \A f \in TreeFiles :
                    snapshot[ret.node].checksums[f] =
                        IF snapshot[ret.node].files[f] # NoFile
                        THEN file_checksum(snapshot[ret.node].files[f]) ELSE NoSum
        /\ ret.trouble => ~ret.ok

\* ------------------------------------------------------------------------
\* Properties of the node operations (SpecNodes)
\* ------------------------------------------------------------------------
DisabledNodes == {n \in Known : ~registry[n]}

\* C11: no fetch, bulk edit, push or restart opens a connection to a
\* disabled node, changes a file of its remote tree or changes its local
\* snapshot, even when the node is named as the target; and fetch_all,
\* bulk_edit_all and push to all nodes, called without a target list,
\* iterate exactly the enabled nodes.
C11_DisabledNodesUntouched ==
    /\ \A n \in DisabledNodes :
          /\ remote[n] = [f \in TreeFiles |-> Yaml(InitialKey)]
          /\ snapshot[n] = EarlierSnapshot
          /\ ret.op # "none" => n \notin ret.contacted
    /\ ret.op = "fetch_all" => DOMAIN ret.result = Known \ DisabledNodes
    /\ (ret.op \in {"bulk_edit_all", "push_all_nodes"} /\ ~ret.given) =>
          /\ ret.visited = SelectSeq(NodeOrder, LAMBDA n : n \notin DisabledNodes)
          /\ DOMAIN ret.result = Known \ DisabledNodes

\* C11 witness: bulk_edit_all was given a target list that names the
\* disabled node between two enabled ones, and edited a node after it.
C11_Witness ==
    /\ ret.op = "bulk_edit_all"
    /\ ret.given
    /\ ret.targets = <<"B", "C", "A">>
    /\ "A" \in ret.contacted
    /\ \E u \in DOMAIN ret.result["A"] : ret.result["A"][u]

\* ------------------------------------------------------------------------
\* Properties of discovery and of the EPS calculations (SpecEPS)
\* ------------------------------------------------------------------------
\* the .yml files a module directory holds besides conf.yml
FilesPresent(tree, m) == {s \in SubNames : tree[m].subs[s].kind # "none"}

\* the submodules Include_sub_modules refers to: every file present when
\* it is "*" or a list containing "*", the named ones otherwise
Referenced(tree, m) ==
    LET inc == Range(IncludedSubmodules(tree[m].conf))
    IN IF "*" \in inc THEN FilesPresent(tree, m) ELSE inc \cap FilesPresent(tree, m)

\* C12 as stated: the keys of the map enumerate_submodules returns are
\* exactly, for each module directory with a conf.yml, the files present
\* that Include_sub_modules refers to, and an entry's eligibility flag is
\* true iff the file's uniquekey is a mapping containing NumUniqKey.
C12_DiscoveryKeysExact ==
    out.op = "enumerate" =>
        /\ DOMAIN out.r =
              UNION {{<<m, s>> : s \in Referenced(conf_d, m)} :
                        m \in {x \in Modules : conf_d[x].conf.kind # "none"}}
        /\ \A k \in DOMAIN out.r :
              out.r[k].has_unique_key_config = (conf_d[k[1]].subs[k[2]].uk = "key")

\* the submodule files that load and hold no uniquekey.NumUniqKey
WithoutKey(tree, m) ==
    {s \in SubNames : tree[m].subs[s].kind = "yaml" /\ tree[m].subs[s].uk # "key"}

\* the tree with those files taken away
KeyedOnly(tree) ==
    [m \in DOMAIN tree |->
        [tree[m] EXCEPT !.subs = [s \in SubNames |->
                                     IF s \in WithoutKey(tree, m) THEN NoEntry
                                     ELSE tree[m].subs[s]]]]

\* C13 as stated: a submodule file without uniquekey.NumUniqKey is still
\* enumerated, adds nothing to the submodule sum of calculate, of
\* suggest_unique_key_for_target or of the cluster manager's roll-up, and is
\* never in the update map of a module-level or pattern-based bulk edit.
C13_NoKeyEnumerableButExcluded ==
    /\ out.op = "enumerate" =>
          \A m \in Modules : \A s \in WithoutKey(conf_d, m) \cap DiscoveredIn(conf_d, m) :
              <<m, s>> \in DOMAIN out.r /\ ~out.r[<<m, s>>].has_unique_key_config
    /\ (out.op = "calculate" /\ out.overrides = NoOverrides /\ out.r.status = "ok") =>
          out.r.total_submodule_contribution =
              calculate_eps(KeyedOnly(conf_d), out.module, out.module_uniquekey,
                            out.module_period, NoOverrides).total_submodule_contribution
    /\ (out.op = "suggest" /\ out.r.status = "ok") =>
          out.r.total_submodule_contribution =
              suggest_uniquekey_for_target_eps(KeyedOnly(conf_d), out.module, out.target_eps,
                                               out.period, out.tolerance)
                  .total_submodule_contribution
    /\ out.op = "eps_for_modules" =>
          out.r = get_module_eps_calculation(KeyedOnly(conf_d), out.names, out.r.period)
    /\ out.op \in {"module_edit", "pattern_edit"} =>
          \A k \in out.r : k[2] \notin WithoutKey(conf_d, k[1])

\* a submodule file's NumUniqKey with a missing or <1 value replaced by the
\* configured default
KeyOrDefault(file) ==
    IF file.kind = "yaml" /\ file.uk = "key" /\ file.key >= 1 THEN file.key
    ELSE DEFAULT_UNIQUE_KEY

\* S of a calculate call: the sum over every file present in the module
\* directory, an override taking the place of the file's value
SubmoduleSum(tree, m, overrides) ==
    SeqSum([i \in DOMAIN SubOrder |->
               IF SubOrder[i] \notin FilesPresent(tree, m) THEN 0
               ELSE IF SubOrder[i] \in DOMAIN overrides
               THEN (IF overrides[SubOrder[i]] >= 1 THEN overrides[SubOrder[i]]
                     ELSE DEFAULT_UNIQUE_KEY)
               ELSE KeyOrDefault(tree[m].subs[SubOrder[i]])])

\* the period string a calculate call works with: the override, the
\* conf.yml's period, or "1s" when conf.yml has none
PeriodText(conf, module_period) ==
    IF module_period.given THEN module_period.text
    ELSE IF conf.has_period THEN conf.period ELSE <<"1", "s">>

\* the module key it works with: the override or the conf.yml's NumUniqKey
ModuleKey(conf, module_uniquekey) ==
    IF module_uniquekey.given THEN module_uniquekey.value
    ELSE IF conf.uk = "key" THEN conf.key ELSE DEFAULT_UNIQUE_KEY

\* C14 as stated: for a module whose conf.yml loads and a period string
\* the parser accepts, calculate returns eps = module_key * S /
\* period_seconds, S summing over every file present with missing or <1
\* keys replaced by the default, period_seconds <= 0 replaced by 1 and
\* overrides replacing what is on disk; module key 5 with submodule keys
\* 10, 20, 30 gives 300 at 1s and 30 at 10s.
C14_EpsFormula ==
    (/\ out.op = "calculate"
     /\ out.module \in Modules
     /\ conf_d[out.module].conf.kind = "yaml"
     /\ parse_duration_ok(PeriodText(conf_d[out.module].conf, out.module_period))) =>
        LET conf == conf_d[out.module].conf
            ms == parse_duration_ms(PeriodText(conf, out.module_period))
            key == ModuleKey(conf, out.module_uniquekey)
            S == SubmoduleSum(conf_d, out.module, out.overrides)
        IN /\ out.r.status = "ok"
           /\ out.r.eps_num = key * S * 1000
           /\ out.r.eps_den = (IF ms <= 0 THEN 1000 ELSE ms)
           /\ (key = 5 /\ S = 60 /\ ms = 1000) => out.r.eps_num = 300 * out.r.eps_den
           /\ (key = 5 /\ S = 60 /\ ms = 10000) => out.r.eps_num = 30 * out.r.eps_den

\* the period string a suggest call works with
SuggestPeriodText(m, period) ==
    IF period.given THEN period.text ELSE PeriodText(conf_d[m].conf, period)

\* C15 as stated: for every target_eps > 0 and every period string the
\* parser accepts, suggest returns suggested_key = max(1, nearest integer
\* to target_eps * period_seconds / total), expected_eps = suggested_key *
\* total / period_seconds and within_tolerance = (|expected_eps -
\* target_eps| / target_eps <= tolerance); it fails with
\* NoUsableSubmodules when the total is <= 0; total 60, target 300 and
\* period 1s give suggested_key 5 within tolerance.
C15_SuggestInverse ==
    (/\ out.op = "suggest"
     /\ out.target_eps > 0
     /\ out.period.given \/ (out.module \in Modules /\ conf_d[out.module].conf.kind = "yaml")
     /\ parse_duration_ok(SuggestPeriodText(out.module, out.period))) =>
        LET ms == parse_duration_ms(SuggestPeriodText(out.module, out.period))
            total == IF out.module \in Modules
                     THEN SubmoduleSum(conf_d, out.module, NoOverrides) ELSE 0
            q == out.target_eps * ms
            d == 1000 * total
            k == out.r.suggested_module_uniquekey
        IN IF total <= 0 THEN out.r.status = "NoUsableSubmodules"
           ELSE /\ out.r.status = "ok"
                /\ k >= 1
                /\ 2 * Abs(k * d - q) <= d \/ (k = 1 /\ 2 * q <= d)
                /\ out.r.expected_num = k * total * 1000
                /\ out.r.expected_den = ms
                /\ out.r.within_tolerance <=>
                      Abs(k * d - q) * out.tolerance[2] <= out.tolerance[1] * q
                /\ (total = 60 /\ out.target_eps = 300 /\ ms = 1000) =>
                      (k = 5 /\ out.r.within_tolerance)

\* reading module m's configuration fails: conf.yml is missing or does not
\* load, its period string is one the parser rejects, or a submodule file
\* that is present does not load
ReadFails(tree, m) ==
    \/ m \notin Modules
    \/ tree[m].conf.kind # "yaml"
    \/ ~parse_duration_ok(PeriodText(tree[m].conf, None))
    \/ \E s \in SubNames : tree[m].subs[s].kind = "bad"

\* C16 as stated: when reading a module's or a submodule's configuration
\* fails, calculate and suggest report the failure instead of a result,
\* and the roll-up returns no EPS entry computed from a default key for a
\* module whose conf.yml does not load.
C16_ReadFailuresReported ==
    /\ (out.op \in {"calculate", "suggest"} /\ ReadFails(conf_d, out.module)) =>
          out.r.status # "ok"
    /\ out.op = "eps_for_modules" =>
          \A m \in Range(out.names) \cap Modules :
             conf_d[m].conf.kind = "bad" => m \notin DOMAIN out.r.modules

\* the names a roll-up can be asked about, in a fixed order
ModuleOrder == <<"M", "N", "Z">>

\* the sum of calculated_eps over the per-module breakdown of a roll-up
\* result
BreakdownSum(r) ==
    SeqSum([i \in DOMAIN ModuleOrder |->
               IF ModuleOrder[i] \in DOMAIN r.modules
               THEN r.modules[ModuleOrder[i]].calculated_eps ELSE 0])

\* the sum of NumUniqKey over module m's discovered submodules that carry
\* a NumUniqKey
EligibleSum(tree, m) ==
    SeqSum([j \in DOMAIN SubOrder |->
               IF /\ m \in Modules
                  /\ <<m, SubOrder[j]>> \in DOMAIN get_all_submodule_configs(tree)
                  /\ tree[m].subs[SubOrder[j]].uk = "key"
               THEN tree[m].subs[SubOrder[j]].key ELSE 0])

\* C17 as stated: for every list of module names and every period the
\* roll-up returns, for each requested module, calculated_eps =
\* module_level_key * (sum of the eligible discovered submodule keys) /
\* period with the key read from conf.yml and defaulting to 1, and
\* total_eps is the sum of calculated_eps over the returned breakdown.
\* EPS values are in units of 1 / period.
C17_RollUpTotal ==
    out.op = "eps_for_modules" =>
        /\ DOMAIN out.r.modules = Range(out.names)
        /\ \A m \in Range(out.names) :
              LET e == out.r.modules[m]
              IN /\ e.module_level_unique_key =
                       (IF m \in Modules /\ conf_d[m].conf.kind = "yaml"
                           /\ conf_d[m].conf.uk = "key"
                        THEN conf_d[m].conf.key ELSE 1)
                 /\ e.submodule_unique_keys_sum = EligibleSum(conf_d, m)
                 /\ e.calculated_eps =
                       (IF out.r.period > 0
                        THEN e.module_level_unique_key * e.submodule_unique_keys_sum
                        ELSE 0)
        /\ out.r.total_eps = BreakdownSum(out.r)

\* C18 as stated: a push_all that reaches the node's snapshot returns
\* total_files = the number of config files in the node's local tree and
\* files_pushed = the number of files whose push succeeded; every one of
\* the total_files files is counted in files_pushed or listed in
\* failed_files; and success is true iff files_pushed > 0.
C18_PushAllAccounting ==
    (/\ ret.op = "push_all"
     /\ ret.node \in Known
     /\ registry[ret.node]
     /\ snapshot[ret.node].exists /\ RootDir \in snapshot[ret.node].dirs) =>
        LET fs == SnapshotFiles(snapshot[ret.node])
            r == ret.result
        IN /\ r.total_files = Cardinality(fs)
           /\ r.files_pushed = Cardinality(fs \ ret.failed)
           /\ r.files_pushed + Cardinality(r.failed_files) = r.total_files
           /\ r.success <=> r.files_pushed > 0

\* the files written on the node by the call that has just returned have
\* a backup made by that call
WritesBackedUp ==
    \A f \in ret.wrote : \E b \in ret.backups : b.name[1] = Stem(f)

\* C19 as stated: with backup=true every file that push_file, push_all or
\* bulk_edit overwrites on a node has a backup created by the same
\* operation (bulk_edit creates none, so it may write nothing); with
\* backup=false no backup is created.
C19_BackupBeforeOverwrite ==
    /\ (ret.op \in {"push_file", "push_all"} /\ ret.backup) => WritesBackedUp
    /\ (ret.op = "bulk_edit" /\ ret.backup) => ret.attempted = {}
    /\ (ret.op \in {"push_file", "push_all"} /\ ~ret.backup) => ret.backups = {}

\* C20 as stated: every backup ever created stays retrievable: no step of
\* the File Store (and no fetch, bulk edit or push) removes a backup or
\* replaces the content kept under an existing backup path, whether the
\* writes are to different files or successive writes to the same file.
C20_BackupsKept ==
    [][\A p \in DOMAIN backups : p \in DOMAIN backups' /\ backups'[p] = backups[p]]_vars

\* C21 as stated: after every add_node or remove_node call returns, with
\* success or failure, the nodes file and the in-memory registry hold the
\* same node definitions, one per name.
C21_FileMatchesMemory ==
    reg_last.op \in {"add_node", "remove_node"} =>
        /\ nodes_file.state = "ok"
        /\ nodes_file.nodes = nodes_config

\* remove_node left everything as it was
RegistryUntouched ==
    /\ nodes_config = reg_last.before.nodes_config
    /\ nodes_file = reg_last.before.nodes_file
    /\ node_dirs = reg_last.before.node_dirs

\* C22 as stated: after remove_node(name) returns true the name is not
\* registered and its snapshot and backup directories do not exist; it
\* returns false only when nothing was changed; the entries and
\* directories of every other node are unchanged in all cases.
C22_RemoveNodeFrame ==
    reg_last.op = "remove_node" =>
        /\ reg_last.ok =>
              /\ reg_last.name \notin DOMAIN nodes_config
              /\ node_dirs[reg_last.name] = [snapshot |-> "none", backups |-> "none"]
        /\ ~reg_last.ok => RegistryUntouched
        /\ \A m \in RegNames \ {reg_last.name} :
              /\ node_dirs[m] = reg_last.before.node_dirs[m]
              /\ m \in DOMAIN nodes_config <=> m \in DOMAIN reg_last.before.nodes_config
              /\ m \in DOMAIN nodes_config => nodes_config[m] = reg_last.before.nodes_config[m]

DigitsThenUnit(s) ==
    \E k \in 1..(Len(s) - 1) :
        /\ \A i \in 1..k : s[i] \in Digits
        /\ SubSeq(s, k + 1, Len(s)) \in {<<"m", "s">>, <<"s">>, <<"m">>, <<"h">>}

\* digits * (0.001, 1, 60, 3600) seconds, in milliseconds
DigitsTimesUnit(s) ==
    LET k == CHOOSE k \in 1..(Len(s) - 1) :
                 /\ \A i \in 1..k : s[i] \in Digits
                 /\ \A i \in (k + 1)..Len(s) : s[i] \notin Digits
        u == SubSeq(s, k + 1, Len(s))
    IN DecimalValue(SubSeq(s, 1, k))
       * (IF u = <<"m", "s">> THEN 1 ELSE IF u = <<"s">> THEN 1000
          ELSE IF u = <<"m">> THEN 60000 ELSE 3600000)

\* C24 as stated: parse accepts exactly the strings of one or more digits
\* immediately followed by one unit of ms, s, m, h and returns digits *
\* (0.001, 1, 60, 3600) seconds; the empty string gives 1.0; every other
\* string fails; "250ms" gives 0.25.
C24_ParseExactly ==
    out.op = "parse" =>
        IF out.text = <<>> THEN out.r = [status |-> "ok", ms |-> 1000]
        ELSE IF DigitsThenUnit(out.text)
        THEN out.r = [status |-> "ok", ms |-> DigitsTimesUnit(out.text)]
             /\ (out.text = <<"2", "5", "0", "m", "s">> => out.r.ms = 250)
        ELSE out.r.status = "ValueError"

\* one step of the unit format chooses, in seconds
UnitStep(x) == IF x < 60 THEN 1 ELSE IF x < 3600 THEN 60 ELSE 3600

\* C25, confirmed: for every whole number of seconds x, format(x) is
\* accepted by parse, parse(format(x)) <= x, and x - parse(format(x)) is
\* less than one step of the unit format chose.
C25_RoundTripTruncates ==
    out.op = "format" =>
        /\ out.r.status = "ok"
        /\ out.r.ms <= out.seconds * 1000
        /\ out.seconds * 1000 - out.r.ms < UnitStep(out.seconds) * 1000

\* 3725 seconds were formatted as "1h" and parsed back as 3600
C25_Witness ==
    /\ out.op = "format"
    /\ out.seconds = 3725
    /\ out.text = <<"1", "h">>
    /\ out.r = [status |-> "ok", ms |-> 3600000]

\* C26: a get_status call that finds a run started with a timeout T > 0
\* still alive once T seconds have elapsed stops the process and reports
\* status "timeout" (after which the run, no longer alive, is never
\* reported "running" again).
C26_TimeoutEnforced ==
    (/\ pm_last.op = "get_status"
     /\ pm_last.was_alive
     /\ pm_last.timeout > 0
     /\ pm_last.elapsed >= pm_last.timeout)
        => (pm_last.status = "timeout" /\ ~alive)

\* the document a mutator call leaves when it changes only its targeted
\* key of the document before
OnlyTargetedKey(before, call) ==
    IF call.op = "toggle_module_enabled"
    THEN [before EXCEPT !.inc = IF call.arg.flag THEN "on" ELSE "off"]
    ELSE IF call.op = "update_module_period"
    THEN [before EXCEPT !.period = call.arg.per]
    ELSE [before EXCEPT !.uk = "num", !.num = call.arg.n]

\* C27: a successful update_module_uniquekey, update_module_period,
\* update_submodule_uniquekey or toggle_module_enabled leaves its document
\* equal to the document it replaced except for the one targeted key.
C27_MutatorFrame ==
    (SomeCallFinished /\ last.call.status = "ok" /\ last.call.op \in Mutators) =>
        last.call.data = OnlyTargetedKey(last.call.replaced, last.call)

\* the calls that run fetch_node_config for node n
FetchesNode(r, n) ==
    \/ r.op = "fetch_node" /\ r.node = n
    \/ r.op = "fetch_all"
    \/ r.op = "eps_for_modules" /\ r.node = n

\* C28 as stated: a node's snapshot changes only in a fetch_node or
\* fetch_all call; bulk edits, pushes, restarts and every summary or
\* discovery query leave its files and manifest unchanged.
C28_OnlyFetchChangesSnapshot ==
    [][\A n \in Known :
          snapshot'[n] # snapshot[n] => ret'.op \in {"fetch_node", "fetch_all"}]_vars

\* C28: a node's snapshot changes only in a call that runs fetch_node_config
\* for it: fetch_node, fetch_all, or an EPS query given that node's name.
\* Bulk edits (single node, all nodes, module level), pushes, restarts,
\* discovery and the EPS queries without a node name leave it unchanged, so
\* after a successful bulk edit it still shows the pre-edit NumUniqKey.
C28_SnapshotFrame ==
    [][\A n \in Known : snapshot'[n] # snapshot[n] => FetchesNode(ret', n)]_vars

\* C28 witness: a bulk edit has set a submodule's key on the node while
\* the node's snapshot, fetched before, still shows the key it had
C28_Witness ==
    /\ ret.op \in {"bulk_edit", "module_edit"}
    /\ \E f \in Range(SubmoduleOrder) :
          /\ f \in DOMAIN ret.result /\ ret.result[f]
          /\ remote[ret.node][f] = Yaml(NewKey)
          /\ snapshot[ret.node].files[f] = Yaml(InitialKey)

\* C29: for the same tree, module and period the engine's calculate and the
\* roll-up's eps_for_modules give the same EPS (the engine's as the fraction
\* eps_num / eps_den, the roll-up's as calculated_eps over the period, 0
\* for a period that is not positive).
C29_SameEps ==
    out.op = "compare" =>
        LET e == out.engine
            r == out.rollup.modules[out.module]
        IN /\ e.status = "ok"
           /\ IF out.period > 0
              THEN e.eps_num * out.period = r.calculated_eps * e.eps_den
              ELSE e.eps_num = 0

\* C30: every NumUniqKey value an edit path writes (a File Store mutator, a
\* bulk edit with a caller-supplied map, a pattern or an arithmetic bulk
\* operation) is an integer in 1..MAX_UNIQUE_KEY.
C30_WrittenKeysInRange ==
    (out.op = "write_key" /\ out.written) =>
        (out.value.kind = "int" /\ out.value.n >= 1 /\ out.value.n <= MAX_UNIQUE_KEY)

====
